---- MODULE Spec2Model ----
(***************************************************************************)
(* Model of the terrain streaming scheduler (WorldLoader) of src/world/    *)
(* world_loader.rs, together with World::create_chunks of src/world.rs.    *)
(*                                                                         *)
(* The driver thread's operations (update, create_buffers, get_buffer) are *)
(* one action each.  A background thread reads and writes nothing but its  *)
(* own batch and noise copy, and the driver reads each handle's finished   *)
(* flag exactly once per update, so every interleaving of a thread         *)
(* finishing with a running update is equivalent to the thread finishing   *)
(* just before or just after that update: TaskFinish is an action of its   *)
(* own and Update is atomic.                                               *)
(***************************************************************************)
EXTENDS Integers, Sequences, FiniteSets, TLC

\* ------------------------------------------------------------------ bounds
\* largest configured chunk_view_distance
MaxViewDistance == 1
\* the camera's chunk coordinate u ranges over 0..MaxCam, its w is 0
MaxCam == 1
\* create_chunks is called with u in 0..MaxKey and w in 0..1
MaxKey == 2
\* at most MaxPanics background threads of one run panic
MaxPanics == 1

\* largest chunk_view_distance of a unit run of the visible-range functions
MaxRing == 2
\* the camera's chunk coordinates u, w of such a run range over -MaxCoord..MaxCoord
MaxCoord == 1

\* the normalised noise term of a unit run of the generator is n / HeightGrid
\* for n in 0..HeightGrid
HeightGrid == 4

\* ------------------------------------------------------- program constants
MAX_CHUNKS_THREAD_LIMIT == 8
\* the seed of World::new(0)
SEED == 0
VERTICAL_CHUNK_COUNT == 8
CHUNK_WIDTH_BITS == 5

CHUNK_WIDTH == 32
WORLD_HEIGHT == CHUNK_WIDTH * VERTICAL_CHUNK_COUNT
MIN_HEIGHT == 8
SEA_LEVEL == 24

VARIABLES
    chunk_view_distance,  \* WorldLoader.chunk_view_distance
    noise,                \* World.noise (the seed the Simplex source was built from)
    chunk_stacks,         \* World.chunk_stacks : ChunkUW -> ChunkStack
    chunk_meshes,         \* WorldLoader.chunk_meshes : ChunkUW -> Vec<ChunkMeshes>
    buffered_chunks,      \* WorldLoader.buffered_chunks : ChunkUW -> Vec<ChunkBuffers>
    tasks,                \* WorldLoader.tasks : Vec<ChunkMeshingTask>
    chunk_columns,        \* World.chunk_columns of src/world.rs
    meshed_chunks,        \* World.meshed_chunks of src/world.rs
    panic,                \* "none", or the fatal error that ended the driver thread
    camera,               \* chunk coordinates of the camera of the last update
    lastOp,               \* "new" until the first update, "update" from then on
    dispatched,           \* how many tasks the last update spawned: the last ones of tasks
    harvested,            \* how many tasks the last update joined
    joins,                \* per column: how often a task tagged with it was joined
    waited,               \* TRUE once the driver joined a thread that had not finished
    call                  \* the function call a unit run is in: its arguments and result

vars == <<chunk_view_distance, noise, chunk_stacks, chunk_meshes, buffered_chunks,
          tasks, chunk_columns, meshed_chunks, panic, camera, lastOp, dispatched,
          harvested, joins, waited, call>>

\* ----------------------------------------------------------------- helpers
Abs(n) == IF n < 0 THEN -n ELSE n

\* Option<T>: None is the empty sequence, Some(x) the one-element sequence
None == <<>>

Some(x) == <<x>>

\* HashMap::insert: adds the key or replaces its value
MapInsert(m, k, val) == [x \in DOMAIN m \cup {k} |-> IF x = k THEN val ELSE m[x]]

EmptyMap == [x \in {} |-> 0]

Range(s) == {s[i] : i \in DOMAIN s}

\* `let x = value; Then(x)`: the value is computed once, whatever Then does
Bind(value, Then(_)) == CHOOSE result \in {Then(x) : x \in {value}} : TRUE

\* camera chunk coordinates handed to the driver calls
Cameras == (0..MaxCam) \X {0}

\* every column a driver call of the model can see
AllCols == ((0 - MaxViewDistance)..(MaxCam + MaxViewDistance))
           \X ((0 - MaxViewDistance)..MaxViewDistance)

\* ------------------------------------------------- generation and meshing
\* Terrain height of a column: a fixed function of the seed and the column,
\* standing for the Simplex samples generate_stack combines.
column_height(seed, uw) ==
    MIN_HEIGHT + (((seed + 5 * Abs(uw[1]) + 11 * Abs(uw[2])) * 37) % (WORLD_HEIGHT - MIN_HEIGHT))

\* Chunk::generate_stack: the column's chunks, abstracted to what the mesher's
\* output depends on: whether the chunk holds the terrain surface and whether
\* it holds water (terrain below SEA_LEVEL, which lies in the lowest chunk).
stack_of_height(uw, height) ==
    [u |-> uw[1], w |-> uw[2],
     chunks |-> [v \in 1..VERTICAL_CHUNK_COUNT |->
                   [surface |-> (height \div CHUNK_WIDTH = v - 1),
                    water |-> (height < SEA_LEVEL /\ v = 1)]]]

generate_stack(seed, uw) == stack_of_height(uw, column_height(seed, uw))

\* Chunk::generate_mesh: (opaque faces, transparent faces); a chunk that is all
\* air or all stone has no visible face
generate_mesh(chunk) ==
    <<IF chunk.surface THEN <<"quad">> ELSE <<>>,
      IF chunk.water THEN <<"transparent_quad">> ELSE <<>>>>

\* ChunkMeshes of the pair generate_mesh returns
chunk_meshes_of(meshes) == [quads |-> meshes[1], transparent_quads |-> meshes[2]]

\* ChunkMeshingTaskOutput of a column and its stack: one mesh per vertical chunk
task_output(uw, chunk_stack) ==
    [uw |-> uw,
     chunk_stack |-> chunk_stack,
     chunk_meshes |-> [v \in 1..VERTICAL_CHUNK_COUNT |->
                         chunk_meshes_of(generate_mesh(chunk_stack.chunks[v]))]]

\* thread_body that generates one stack, for the first column of the batch,
\* and uses it for every column that came without its stack
thread_body_shared_stack(batch, seed) ==
    [k \in 1..Len(batch) |->
        Bind(IF batch[k].chunk_stack = None
             THEN generate_stack(seed, batch[1].uw)
             ELSE batch[k].chunk_stack[1],
             LAMBDA chunk_stack : task_output(batch[k].uw, chunk_stack))]

\* the closure of thread::spawn in update: Vec<ChunkMeshingTaskOutput>; a
\* column that came with its stack is not generated again
thread_body(batch, seed) ==
    [k \in 1..Len(batch) |->
        Bind(IF batch[k].chunk_stack = None
             THEN generate_stack(seed, batch[k].uw)
             ELSE batch[k].chunk_stack[1],
             LAMBDA chunk_stack : task_output(batch[k].uw, chunk_stack))]

\* ------------------------------------------------------ voxels of a chunk
CHUNK_WIDTH_P == CHUNK_WIDTH + 2

\* TOTAL_BLOCK_COUNT of generate_stack: the length of Chunk.data
TOTAL_BLOCK_COUNT == CHUNK_WIDTH_P * CHUNK_WIDTH_P * CHUNK_WIDTH_P

\* Chunk { data }: a boxed slice of len blocks, all Block::AIR but the cells
\* written since; cells holds the blocks written, by index into data
air_chunk == [len |-> TOTAL_BLOCK_COUNT, cells |-> EmptyMap]

\* self.data[index]
data_at(chunk, index) == IF index \in DOMAIN chunk.cells THEN chunk.cells[index] ELSE "AIR"

\* validate_chunk_coordinates whose range excludes CHUNK_WIDTH: -1..CHUNK_WIDTH
validate_chunk_coordinates_exclusive(x, y, z) ==
    /\ -1 <= x /\ x < CHUNK_WIDTH
    /\ -1 <= y /\ y < CHUNK_WIDTH
    /\ -1 <= z /\ z < CHUNK_WIDTH

\* Chunk::validate_chunk_coordinates: the range is -1..=CHUNK_WIDTH
validate_chunk_coordinates(x, y, z) ==
    /\ -1 <= x /\ x <= CHUNK_WIDTH
    /\ -1 <= y /\ y <= CHUNK_WIDTH
    /\ -1 <= z /\ z <= CHUNK_WIDTH

\* index_of with rows and planes of CHUNK_WIDTH cells: the halo left out of
\* the strides
index_of_narrow(x, y, z) == ((x + 1) * CHUNK_WIDTH + y + 1) * CHUNK_WIDTH + z + 1

\* the index at and at_mut compute
index_of(x, y, z) == ((x + 1) * CHUNK_WIDTH_P + y + 1) * CHUNK_WIDTH_P + z + 1

\* Chunk::at: [panicked, index read (None if none), value]; the panic is that
\* of the validation, or that of the slice index beyond data
at(chunk, x, y, z) ==
    IF ~validate_chunk_coordinates(x, y, z)
    THEN [panicked |-> TRUE, index |-> None, value |-> None]
    ELSE IF index_of(x, y, z) < 0 \/ index_of(x, y, z) >= chunk.len
         THEN [panicked |-> TRUE, index |-> None, value |-> None]
         ELSE [panicked |-> FALSE, index |-> Some(index_of(x, y, z)),
               value |-> Some(data_at(chunk, index_of(x, y, z)))]

\* `*chunk.at_mut(x, y, z) = block`: [panicked, index written (None if none),
\* chunk]
at_mut(chunk, x, y, z, block) ==
    IF ~validate_chunk_coordinates(x, y, z)
    THEN [panicked |-> TRUE, index |-> None, chunk |-> chunk]
    ELSE IF index_of(x, y, z) < 0 \/ index_of(x, y, z) >= chunk.len
         THEN [panicked |-> TRUE, index |-> None, chunk |-> chunk]
         ELSE [panicked |-> FALSE, index |-> Some(index_of(x, y, z)),
               chunk |-> [chunk EXCEPT !.cells = MapInsert(@, index_of(x, y, z), block)]]

\* a write into chunk v (from 0) of a stack: [panicked, chunks]; an index
\* beyond the array panics
write_chunk(chunks, v, x, y, z, block) ==
    IF v < 0 \/ v >= Len(chunks)
    THEN [panicked |-> TRUE, chunks |-> chunks]
    ELSE Bind(at_mut(chunks[v + 1], x, y, z, block),
              LAMBDA written : [panicked |-> written.panicked,
                                chunks |-> [chunks EXCEPT ![v + 1] = written.chunk]])

\* insert_into_chunk_stack that writes the cell and no halo cell
insert_into_chunk_stack_unmirrored(chunk_stack, x, global_y, z, block) ==
    Bind(write_chunk(chunk_stack.chunks, global_y \div CHUNK_WIDTH,
                     x, global_y % CHUNK_WIDTH, z, block),
         LAMBDA own : [panicked |-> own.panicked,
                       chunk_stack |-> [chunk_stack EXCEPT !.chunks = own.chunks]])

\* Chunk::insert_into_chunk_stack: [panicked, chunk_stack]
insert_into_chunk_stack(chunk_stack, x, global_y, z, block) ==
    LET y == global_y % CHUNK_WIDTH
        v == global_y \div CHUNK_WIDTH
    IN Bind(write_chunk(chunk_stack.chunks, v, x, y, z, block),
            LAMBDA own :
               IF own.panicked
               THEN [panicked |-> TRUE, chunk_stack |-> chunk_stack]
               ELSE Bind(IF y = 0 /\ v > 0
                         THEN write_chunk(own.chunks, v - 1, x, CHUNK_WIDTH, z, block)
                         ELSE IF y = CHUNK_WIDTH - 1 /\ v < VERTICAL_CHUNK_COUNT - 1
                              THEN write_chunk(own.chunks, v + 1, x, -1, z, block)
                              ELSE own,
                         LAMBDA mirrored :
                            [panicked |-> mirrored.panicked,
                             chunk_stack |-> [chunk_stack EXCEPT !.chunks = mirrored.chunks]]))

\* ------------------------------------------- generation of one (x, z) cell
\* b to the power e
RECURSIVE pow(_, _)
pow(b, e) == IF e = 0 THEN 1 ELSE b * pow(b, e - 1)

\* f64::round of the fraction num / den (den > 0, num >= 0): half away from zero
round(num, den) == (2 * num + den) \div (2 * den)

\* the height with the scale WORLD_HEIGHT - MIN_HEIGHT
height_of_unscaled(n, exponent) ==
    round((WORLD_HEIGHT - MIN_HEIGHT) * pow(n, exponent), pow(HeightGrid, exponent))
    + MIN_HEIGHT

\* lines 74-77 of generate_stack on the normalised noise term n / HeightGrid
\* and the exponent of powf: powf, the scale, round, `as u32`, + MIN_HEIGHT
height_of(n, exponent) ==
    round((WORLD_HEIGHT - MIN_HEIGHT - 1) * pow(n, exponent), pow(HeightGrid, exponent))
    + MIN_HEIGHT

\* the exponents 2.5 * (2.0 + noise) with noise in [-1, 1] that are integers
Exponents == 3..7

\* block_array with Grass and Sand the other way round
block_array_swapped(height) ==
    <<[lo |-> 0, hi |-> height, block |-> "STONE"]>>
    \o (IF height < SEA_LEVEL
        THEN <<[lo |-> height, hi |-> height + 1, block |-> "GRASS"],
               [lo |-> height + 1, hi |-> SEA_LEVEL, block |-> "WATER"]>>
        ELSE <<[lo |-> height, hi |-> height + 1, block |-> "SAND"]>>)

\* block_array of generate_stack: the ranges lo..hi of global y and their block
block_array(height) ==
    <<[lo |-> 0, hi |-> height, block |-> "STONE"]>>
    \o (IF height < SEA_LEVEL
        THEN <<[lo |-> height, hi |-> height + 1, block |-> "SAND"],
               [lo |-> height + 1, hi |-> SEA_LEVEL, block |-> "WATER"]>>
        ELSE <<[lo |-> height, hi |-> height + 1, block |-> "GRASS"]>>)

\* the ranges still to be written: `for y in range` of an empty range does nothing
RECURSIVE skip_empty(_)
skip_empty(ranges) ==
    IF ranges = <<>> THEN <<>>
    ELSE IF ranges[1].lo >= ranges[1].hi THEN skip_empty(Tail(ranges))
    ELSE ranges

\* the stack generate_stack starts from: chunks of air and a height map of 0
\* (height_map holds the entries written, by index)
empty_stack(uw) ==
    [u |-> uw[1], w |-> uw[2],
     chunks |-> [v \in 1..VERTICAL_CHUNK_COUNT |-> air_chunk],
     height_map |-> EmptyMap]

\* with_height that indexes height_map by x * CHUNK_WIDTH + z
with_height_transposed(chunk_stack, x, z, height) ==
    IF 0 <= z /\ z < CHUNK_WIDTH /\ 0 <= x /\ x < CHUNK_WIDTH
    THEN [chunk_stack EXCEPT !.height_map = MapInsert(@, x * CHUNK_WIDTH + z, height)]
    ELSE chunk_stack

\* lines 94-96: the height of an interior cell goes into height_map
with_height(chunk_stack, x, z, height) ==
    IF 0 <= z /\ z < CHUNK_WIDTH /\ 0 <= x /\ x < CHUNK_WIDTH
    THEN [chunk_stack EXCEPT !.height_map = MapInsert(@, z * CHUNK_WIDTH + x, height)]
    ELSE chunk_stack

\* ------------------------------------------------- blocks and coordinates
\* enum Block
Blocks == {"AIR", "STONE", "GRASS", "DIRT", "SAND", "GRAVEL", "ANDESITE", "SNOW", "WATER"}

\* Block::texture_index: [panicked, value]; Block::AIR has no texture
texture_index(block) ==
    IF block = "AIR" THEN [panicked |-> TRUE, value |-> 0]
    ELSE [panicked |-> FALSE,
          value |-> CASE block = "STONE" -> 0
                      [] block = "GRASS" -> 1
                      [] block = "DIRT" -> 2
                      [] block = "SAND" -> 3
                      [] block = "GRAVEL" -> 4
                      [] block = "ANDESITE" -> 5
                      [] block = "SNOW" -> 6
                      [] block = "WATER" -> 6]

\* Block::get_block_type
get_block_type(block) ==
    IF block = "AIR" THEN "INVISIBLE"
    ELSE IF block = "WATER" THEN "TRANSPARENT"
    ELSE "SOLID"

\* Block::is_solid
is_solid(block) == get_block_type(block) = "SOLID"

\* enum Direction, by value: NegX = 0, X = 1, NegY = 2, Y = 3, NegZ = 4, Z = 5
Directions == <<0, 1, 2, 3, 4, 5>>

\* go that steps the same way for both directions of an axis
go_unsigned(coordinates, direction, distance) ==
    [coordinates EXCEPT ![direction \div 2 + 1] = @ + distance]

\* Coordinates::go; coordinates is the array [x, y, z]
go(coordinates, direction, distance) ==
    LET dimension == direction \div 2
        coefficient == IF direction % 2 = 1 THEN 1 ELSE -1
    IN [coordinates EXCEPT ![dimension + 1] = @ + distance * coefficient]

\* ------------------------------------------------------------ bit fields
\* a << k on u32, for operands that shift no bit out: the largest value
\* shifted in the program is 255 << 15, the largest result 5 << 23
shl(a, k) == a * pow(2, k)

\* a >> k
shr(a, k) == a \div pow(2, k)

\* a | b
RECURSIVE bit_or(_, _)
bit_or(a, b) ==
    IF a = 0 THEN b
    ELSE IF b = 0 THEN a
    ELSE (IF a % 2 = 1 \/ b % 2 = 1 THEN 1 ELSE 0) + 2 * bit_or(a \div 2, b \div 2)

\* a & b
RECURSIVE bit_and(_, _)
bit_and(a, b) ==
    IF a = 0 \/ b = 0 THEN 0
    ELSE (IF a % 2 = 1 /\ b % 2 = 1 THEN 1 ELSE 0) + 2 * bit_and(a \div 2, b \div 2)

\* ------------------------------------------------------------- the mesher
\* is_face_visible under which a transparent face shows against another
\* transparent block
is_face_visible_through(block, adjacent_block) ==
    CASE block = "INVISIBLE" -> FALSE
      [] block = "SOLID" -> adjacent_block # "SOLID"
      [] block = "TRANSPARENT" -> adjacent_block # "SOLID"

\* Chunk::is_face_visible, on block types
is_face_visible(block, adjacent_block) ==
    CASE block = "INVISIBLE" -> FALSE
      [] block = "SOLID" ->
            (CASE adjacent_block = "SOLID" -> FALSE
               [] adjacent_block \in {"TRANSPARENT", "INVISIBLE"} -> TRUE)
      [] block = "TRANSPARENT" ->
            (CASE adjacent_block \in {"SOLID", "TRANSPARENT"} -> FALSE
               [] adjacent_block = "INVISIBLE" -> TRUE)

\* Chunk::at_coords
at_coords(chunk, coords) == at(chunk, coords[1], coords[2], coords[3])

\* cross_directions whose entry for Y names Y itself: (Y, Z) for (X, Z)
cross_directions_parallel(direction) ==
    CASE direction = 0 -> <<3, 5>>
      [] direction = 1 -> <<5, 3>>
      [] direction = 2 -> <<5, 1>>
      [] direction = 3 -> <<3, 5>>
      [] direction = 4 -> <<1, 3>>
      [] direction = 5 -> <<3, 1>>

\* cross_directions of get_ao_attributes
cross_directions(direction) ==
    CASE direction = 0 -> <<3, 5>>
      [] direction = 1 -> <<5, 3>>
      [] direction = 2 -> <<5, 1>>
      [] direction = 3 -> <<1, 5>>
      [] direction = 4 -> <<1, 3>>
      [] direction = 5 -> <<3, 1>>

\* the three cells get_ao_attributes reads for corner i: side 1, side 2, corner
corner_cells(air_block, cross, i) ==
    LET step_0 == IF i < 2 THEN -1 ELSE 1
        step_1 == IF bit_and(i, 1) = 1 THEN 1 ELSE -1
    IN <<go(air_block, cross[1], step_0),
         go(air_block, cross[2], step_1),
         go(go(air_block, cross[1], step_0), cross[2], step_1)>>

\* corner_value that adds the three cells up in every case
corner_value_summed(chunk, air_block, cross, i) ==
    LET cells == corner_cells(air_block, cross, i)
        side_1 == is_solid(at_coords(chunk, cells[1]).value[1])
        side_2 == is_solid(at_coords(chunk, cells[2]).value[1])
        corner == is_solid(at_coords(chunk, cells[3]).value[1])
    IN (IF side_1 THEN 1 ELSE 0) + (IF side_2 THEN 1 ELSE 0) + (IF corner THEN 1 ELSE 0)

\* `value` of the loop body of get_ao_attributes for corner i
corner_value(chunk, air_block, cross, i) ==
    LET cells == corner_cells(air_block, cross, i)
        side_1 == is_solid(at_coords(chunk, cells[1]).value[1])
        side_2 == is_solid(at_coords(chunk, cells[2]).value[1])
        corner == is_solid(at_coords(chunk, cells[3]).value[1])
    IN IF side_1 /\ side_2 THEN 3
       ELSE (IF side_1 THEN 1 ELSE 0) + (IF side_2 THEN 1 ELSE 0) + (IF corner THEN 1 ELSE 0)

\* ao_factor that shifts corner i by i bits
RECURSIVE ao_factor_narrow(_, _, _, _, _)
ao_factor_narrow(chunk, air_block, cross, i, factor) ==
    IF i > 3 THEN factor
    ELSE ao_factor_narrow(chunk, air_block, cross, i + 1,
                          bit_or(factor, shl(corner_value(chunk, air_block, cross, i), i)))

\* the loop `for i in 0..4` of get_ao_attributes from corner i: factor |= value << (2 * i)
RECURSIVE ao_factor(_, _, _, _, _)
ao_factor(chunk, air_block, cross, i, factor) ==
    IF i > 3 THEN factor
    ELSE ao_factor(chunk, air_block, cross, i + 1,
                   bit_or(factor, shl(corner_value(chunk, air_block, cross, i), 2 * i)))

\* get_ao_attributes that looks around the cell beside the block, one step
\* along the first cross direction, and not around the cell in front of the face
get_ao_attributes_sideways(chunk, block, direction) ==
    ao_factor(chunk, go(block, cross_directions(direction)[1], 1),
              cross_directions(direction), 0, 0)

\* Chunk::get_ao_attributes
get_ao_attributes(chunk, block, direction) ==
    ao_factor(chunk, go(block, direction, 1), cross_directions(direction), 0, 0)

\* common_packed_bits with the texture index next to z, at bit 14
common_packed_bits_overlapping(x, y, z, tex_index) ==
    bit_or(bit_or(bit_or(x, shl(y, CHUNK_WIDTH_BITS)), shl(z, CHUNK_WIDTH_BITS * 2)),
           shl(tex_index, CHUNK_WIDTH_BITS * 3 - 1))

\* common_packed_bits of generate_mesh
common_packed_bits(x, y, z, tex_index) ==
    bit_or(bit_or(bit_or(x, shl(y, CHUNK_WIDTH_BITS)), shl(z, CHUNK_WIDTH_BITS * 2)),
           shl(tex_index, CHUNK_WIDTH_BITS * 3))

\* `attributes` of a face
face_attributes(x, y, z, tex_index, direction) ==
    bit_or(common_packed_bits(x, y, z, tex_index), shl(direction, CHUNK_WIDTH_BITS * 3 + 8))

\* the directions generate_mesh pushes for a voxel, in its order
directions_of(chunk, x, y, z, block_type) ==
    LET visible(direction) ==
            is_face_visible(block_type,
                            get_block_type(at_coords(chunk, go(<<x, y, z>>, direction, 1)).value[1]))
    IN SelectSeq(Directions, visible)

\* voxel_faces that emits the faces of a solid voxel only
voxel_faces_opaque_only(chunk, x, y, z) ==
    LET block == at(chunk, x, y, z).value[1]
        block_type == get_block_type(block)
    IN IF block_type # "SOLID" THEN <<<<>>, <<>>>>
       ELSE Bind(directions_of(chunk, x, y, z, block_type),
                 LAMBDA directions :
                    <<[k \in 1..Len(directions) |->
                         [attributes |-> face_attributes(x, y, z, texture_index(block).value,
                                                         directions[k]),
                          ao_attributes |-> get_ao_attributes(chunk, <<x, y, z>>, directions[k])]],
                      <<>>>>)

\* the body of the loops of generate_mesh for the voxel (x, y, z): the
\* QuadInstances and the TransparentQuadInstances it pushes
voxel_faces(chunk, x, y, z) ==
    LET block == at(chunk, x, y, z).value[1]
        block_type == get_block_type(block)
    IN IF block_type = "INVISIBLE" THEN <<<<>>, <<>>>>
       ELSE Bind(directions_of(chunk, x, y, z, block_type),
                 LAMBDA directions :
                    IF block_type = "SOLID"
                    THEN <<[k \in 1..Len(directions) |->
                              [attributes |-> face_attributes(x, y, z, texture_index(block).value,
                                                              directions[k]),
                               ao_attributes |-> get_ao_attributes(chunk, <<x, y, z>>,
                                                                   directions[k])]],
                           <<>>>>
                    ELSE <<<<>>,
                           [k \in 1..Len(directions) |->
                              [attributes |-> face_attributes(x, y, z, texture_index(block).value,
                                                              directions[k])]]>>)

\* the coordinates of the cell of data at an index
coords_of(index) ==
    <<(index \div (CHUNK_WIDTH_P * CHUNK_WIDTH_P)) - 1,
      ((index \div CHUNK_WIDTH_P) % CHUNK_WIDTH_P) - 1,
      (index % CHUNK_WIDTH_P) - 1>>

\* the voxels the loops of generate_mesh do not skip at once: the cells of
\* [0, CHUNK_WIDTH)^3 that were written (every other cell is Block::AIR)
written_voxels(chunk) ==
    {c \in {coords_of(i) : i \in DOMAIN chunk.cells} :
        \A k \in 1..3 : 0 <= c[k] /\ c[k] < CHUNK_WIDTH}

\* the position of a voxel in the loops of generate_mesh: x, then z, then y
loop_position(c) == (c[1] * CHUNK_WIDTH + c[3]) * CHUNK_WIDTH + c[2]

\* a set of voxels in the order of the loops
RECURSIVE in_loop_order(_)
in_loop_order(voxels) ==
    IF voxels = {} THEN <<>>
    ELSE LET first == CHOOSE c \in voxels :
                         \A other \in voxels : loop_position(c) <= loop_position(other)
         IN <<first>> \o in_loop_order(voxels \ {first})

\* the faces of the voxels from the k-th on, appended to the two lists
RECURSIVE mesh_from(_, _, _, _)
mesh_from(chunk, voxels, k, lists) ==
    IF k > Len(voxels) THEN lists
    ELSE Bind(voxel_faces(chunk, voxels[k][1], voxels[k][2], voxels[k][3]),
              LAMBDA faces : mesh_from(chunk, voxels, k + 1,
                                       <<lists[1] \o faces[1], lists[2] \o faces[2]>>))

\* Chunk::generate_mesh on the voxels of a chunk: (solid_instances,
\* transparent_instances).  An air voxel is skipped by the loops, so the lists
\* are those of the written voxels in loop order.
generate_mesh_voxels(chunk) ==
    mesh_from(chunk, in_loop_order(written_voxels(chunk)), 1, <<<<>>, <<>>>>)

\* ------------------------------------------------------------ visible range
\* the two rows w = +radius and w = -radius of a ring, x ascending
ring_rows(camera_u, camera_w, radius) ==
    [k \in 1..(2 * (2 * radius + 1)) |->
        LET x == (k - 1) \div 2 - radius
        IN IF k % 2 = 1 THEN <<x + camera_u, radius + camera_w>>
                        ELSE <<x + camera_u, camera_w - radius>>]

\* ring_sides whose z runs over the corners too: z in -radius..=radius
ring_sides_with_corners(camera_u, camera_w, radius) ==
    [k \in 1..(2 * (2 * radius + 1)) |->
        LET z == (k - 1) \div 2 - radius
        IN IF k % 2 = 1 THEN <<radius + camera_u, z + camera_w>>
                        ELSE <<camera_u - radius, z + camera_w>>]

\* the two columns u = +radius and u = -radius of a ring without its corners
ring_sides(camera_u, camera_w, radius) ==
    [k \in 1..(2 * (2 * radius - 1)) |->
        LET z == (k - 1) \div 2 - (radius - 1)
        IN IF k % 2 = 1 THEN <<radius + camera_u, z + camera_w>>
                        ELSE <<camera_u - radius, z + camera_w>>]

RECURSIVE rings_up_to(_, _, _)
rings_up_to(camera_u, camera_w, radius) ==
    IF radius = 0 THEN <<<<camera_u, camera_w>>>>
    ELSE rings_up_to(camera_u, camera_w, radius - 1)
         \o ring_rows(camera_u, camera_w, radius)
         \o ring_sides(camera_u, camera_w, radius)

\* WorldLoader::visible_chunk_range_uw
visible_chunk_range_uw(cam, view_distance) == rings_up_to(cam[1], cam[2], view_distance)

\* cmp::max, cmp::min
max(a, b) == IF a >= b THEN a ELSE b

min(a, b) == IF a <= b THEN a ELSE b

\* the levels of one column in visible_chunk_range_uvw: (v_min..=v_max) mapped
\* to (uw.0, v, uw.1)
column_levels(uw, v_min, v_max) ==
    [k \in 1..(IF v_max >= v_min THEN v_max - v_min + 1 ELSE 0) |->
        <<uw[1], v_min + k - 1, uw[2]>>]

\* flat_map(...).collect()
RECURSIVE flat_map_levels(_, _, _, _)
flat_map_levels(columns, k, v_min, v_max) ==
    IF k > Len(columns) THEN <<>>
    ELSE column_levels(columns[k], v_min, v_max) \o flat_map_levels(columns, k + 1, v_min, v_max)

\* visible_chunk_range_uvw without the clamp to the levels of the world
visible_chunk_range_uvw_unclamped(cam, view_distance) ==
    flat_map_levels(visible_chunk_range_uw(<<cam[1], cam[3]>>, view_distance), 1,
                    cam[2] - view_distance, cam[2] + view_distance)

\* WorldLoader::visible_chunk_range_uvw; cam is the camera's (u, v, w)
visible_chunk_range_uvw(cam, view_distance) ==
    flat_map_levels(visible_chunk_range_uw(<<cam[1], cam[3]>>, view_distance), 1,
                    max(0, cam[2] - view_distance),
                    min(VERTICAL_CHUNK_COUNT - 1, cam[2] + view_distance))

\* in_flight without the scan of the tag lists
in_flight_unseen(task_list, coords) == FALSE

\* some in-flight task is tagged with the column
in_flight(task_list, coords) ==
    \E i \in DOMAIN task_list :
        \E k \in DOMAIN task_list[i].uw_list : task_list[i].uw_list[k] = coords

\* ------------------------------------------------------------------ World
\* World::insert_chunks: a column is inserted at most once, a second insertion
\* is fatal.  [ok, chunk_stacks]
insert_chunks(stacks, uw, chunk_stack) ==
    IF uw \in DOMAIN stacks
    THEN [ok |-> FALSE, chunk_stacks |-> stacks]
    ELSE [ok |-> TRUE, chunk_stacks |-> MapInsert(stacks, uw, chunk_stack)]

\* ---------------------------------------------------------------- harvest
\* is_finished that reports every thread as ended
is_finished_unpolled(handle) == TRUE

\* JoinHandle::is_finished
is_finished(handle) == handle.finished

\* join that hands out the output of a panicked thread
join_unchecked(handle) ==
    [waited |-> ~handle.finished,
     panicked |-> FALSE,
     output |-> thread_body(handle.batch, handle.noise)]

\* JoinHandle::join: the thread's return value, or its panic.  Joining a thread
\* that has not finished waits for it.
join(handle) ==
    [waited |-> ~handle.finished,
     panicked |-> handle.panicked,
     output |-> thread_body(handle.batch, handle.noise)]

\* swap_remove that leaves the list as it is
swap_remove_kept(list, i) == list

\* Vec::swap_remove(i): the last element takes the place of the removed one
swap_remove(list, i) ==
    [k \in 1..(Len(list) - 1) |-> IF k = i THEN list[Len(list)] ELSE list[k]]

\* merge_element without world.insert_chunks
merge_element_meshes_only(st, element, inserted) ==
    [st EXCEPT !.chunk_meshes = MapInsert(@, element.uw, element.chunk_meshes)]

\* merge_element without chunk_meshes.insert
merge_element_stack_only(st, element, inserted) ==
    IF ~inserted.ok
    THEN [st EXCEPT !.panic = "duplicate"]
    ELSE [st EXCEPT !.chunk_stacks = inserted.chunk_stacks]

\* the body of the loop `for element in result` of complete_finished_threads:
\* insert_chunks, then chunk_meshes.insert
merge_element(st, element, inserted) ==
    IF ~inserted.ok
    THEN [st EXCEPT !.panic = "duplicate"]
    ELSE [st EXCEPT !.chunk_stacks = inserted.chunk_stacks,
                    !.chunk_meshes = MapInsert(@, element.uw, element.chunk_meshes)]

\* the loop `for element in result` of complete_finished_threads, from element k
RECURSIVE merge_result(_, _, _)
merge_result(st, result, k) ==
    IF k > Len(result) \/ st.panic # "none" THEN st
    ELSE Bind(merge_element(st, result[k],
                            insert_chunks(st.chunk_stacks, result[k].uw, result[k].chunk_stack)),
              LAMBDA merged : merge_result(merged, result, k + 1))

\* one iteration of the loop of complete_finished_threads on a task that is
\* taken: swap_remove, join, expect, merge
\* the task is out of the list and its handle is joined
taken(st, i, tagged, joined) ==
    [st EXCEPT !.tasks = swap_remove(@, i),
               !.harvested = @ + 1,
               !.waited = @ \/ joined.waited,
               !.joins = [c \in DOMAIN @ \cup tagged |->
                            IF c \notin DOMAIN @ THEN 1
                            ELSE IF c \in tagged THEN @[c] + 1
                            ELSE @[c]]]

\* expect: a panicked thread is fatal; otherwise its output is merged
expect_and_merge(st, joined) ==
    IF joined.panicked
    THEN [st EXCEPT !.panic = "thread"]
    ELSE merge_result(st, joined.output, 1)

harvest_joined(st, i, joined) ==
    Bind(taken(st, i, Range(st.tasks[i].uw_list), joined),
         LAMBDA removed : expect_and_merge(removed, joined))

\* one iteration of the loop of complete_finished_threads on a finished task
harvest_task(st, i) ==
    Bind(join(st.tasks[i].handle), LAMBDA joined : harvest_joined(st, i, joined))

\* WorldLoader::complete_finished_threads: the reverse scan from index i down
RECURSIVE complete_finished_threads(_, _)
complete_finished_threads(st, i) ==
    IF i < 1 \/ st.panic # "none" THEN st
    ELSE IF is_finished(st.tasks[i].handle)
         THEN Bind(harvest_task(st, i),
                   LAMBDA harvested_st : complete_finished_threads(harvested_st, i - 1))
         ELSE complete_finished_threads(st, i - 1)

\* --------------------------------------------------------------- dispatch
\* the loop over the visible range in update: the requests of this frame
\* (no iteration changes what another one reads: a filter, then a map)
requests(kept, stacks) ==
    [k \in 1..Len(kept) |->
          [uw |-> kept[k],
           chunk_stack |-> IF kept[k] \in DOMAIN stacks THEN Some(stacks[kept[k]]) ELSE None]]

\* chunks_to_mesh without the scan of the in-flight tasks
chunks_to_mesh_ignoring_tasks(visible, task_list, meshes, stacks) ==
    LET pushed(coords) == coords \notin DOMAIN meshes
    IN Bind(SelectSeq(visible, pushed), LAMBDA kept : requests(kept, stacks))

\* chunks_to_mesh without the look-up in the mesh cache
chunks_to_mesh_uncached(visible, task_list, meshes, stacks) ==
    LET pushed(coords) == ~in_flight(task_list, coords)
    IN Bind(SelectSeq(visible, pushed), LAMBDA kept : requests(kept, stacks))

chunks_to_mesh(visible, task_list, meshes, stacks) ==
    LET pushed(coords) == IF in_flight(task_list, coords) THEN FALSE
                          ELSE coords \notin DOMAIN meshes
    IN Bind(SelectSeq(visible, pushed), LAMBDA kept : requests(kept, stacks))

\* make_batches that stores last_batch once it holds more than chunks_per_task
\* requests: `>` for `>=`
RECURSIVE make_batches_overfull(_, _, _, _)
make_batches_overfull(batches, pending, in_flight_count, chunks_per_task) ==
    IF ~(Len(batches) + in_flight_count < MAX_CHUNKS_THREAD_LIMIT) THEN batches
    ELSE IF Len(pending) < chunks_per_task + 1
         THEN IF Len(pending) > 0 THEN Append(batches, pending) ELSE batches
         ELSE Bind(<<Append(batches, SubSeq(pending, 1, chunks_per_task + 1)),
                     SubSeq(pending, chunks_per_task + 2, Len(pending))>>,
                   LAMBDA it : make_batches_overfull(it[1], it[2],
                                                     in_flight_count, chunks_per_task))

\* make_batches with `<=` in the loop condition
RECURSIVE make_batches_one_over(_, _, _, _)
make_batches_one_over(batches, pending, in_flight_count, chunks_per_task) ==
    IF ~(Len(batches) + in_flight_count <= MAX_CHUNKS_THREAD_LIMIT) THEN batches
    ELSE IF Len(pending) < chunks_per_task
         THEN IF Len(pending) > 0 THEN Append(batches, pending) ELSE batches
         ELSE Bind(<<Append(batches, SubSeq(pending, 1, chunks_per_task)),
                     SubSeq(pending, chunks_per_task + 1, Len(pending))>>,
                   LAMBDA it : make_batches_one_over(it[1], it[2],
                                                     in_flight_count, chunks_per_task))

\* the while loop of update that cuts the requests into batches, one batch per
\* step: the loop condition changes only when a batch is stored, and between
\* two stores the loop moves the next chunks_per_task requests into last_batch,
\* or all that are left, which it stores if there are any
RECURSIVE make_batches(_, _, _, _)
make_batches(batches, pending, in_flight_count, chunks_per_task) ==
    IF ~(Len(batches) + in_flight_count < MAX_CHUNKS_THREAD_LIMIT) THEN batches
    ELSE IF Len(pending) < chunks_per_task
         THEN IF Len(pending) > 0 THEN Append(batches, pending) ELSE batches
         ELSE Bind(<<Append(batches, SubSeq(pending, 1, chunks_per_task)),
                     SubSeq(pending, chunks_per_task + 1, Len(pending))>>,
                   LAMBDA it : make_batches(it[1], it[2], in_flight_count, chunks_per_task))

\* spawn that pushes the task without its column tags
spawn_untagged(batch, seed) ==
    [uw_list |-> <<>>,
     handle |-> [batch |-> batch, noise |-> seed, finished |-> FALSE, panicked |-> FALSE]]

\* thread::spawn and tasks.push for one batch
spawn(batch, seed) ==
    [uw_list |-> [k \in 1..Len(batch) |-> batch[k].uw],
     handle |-> [batch |-> batch, noise |-> seed, finished |-> FALSE, panicked |-> FALSE]]

\* ---------------------------------------------------------------- buffers
\* chunk_buffers that creates both buffers whatever the mesh lists hold
chunk_buffers_always(u, v, w, chunk_mesh) ==
    [instance_buffer |-> Some(chunk_mesh.quads),
     transparent_instance_buffer |-> Some(chunk_mesh.transparent_quads),
     chunk_bind_group |-> <<u, v, w>>,
     quad_instance_count |-> Len(chunk_mesh.quads),
     transparent_quad_instance_count |-> Len(chunk_mesh.transparent_quads)]

\* the body of the loop over v in create_buffers: one ChunkBuffers
chunk_buffers(u, v, w, chunk_mesh) ==
    [instance_buffer |-> IF Len(chunk_mesh.quads) = 0 THEN None
                         ELSE Some(chunk_mesh.quads),
     transparent_instance_buffer |-> IF Len(chunk_mesh.transparent_quads) = 0 THEN None
                                     ELSE Some(chunk_mesh.transparent_quads),
     chunk_bind_group |-> <<u, v, w>>,
     quad_instance_count |-> Len(chunk_mesh.quads),
     transparent_quad_instance_count |-> Len(chunk_mesh.transparent_quads)]

\* with_buffers whose loop over v stops one level short of the top
with_buffers_top_missing(buffered, inserted, meshes) ==
    [uw \in DOMAIN buffered \cup inserted |->
          IF uw \in inserted
          THEN [v \in 1..(VERTICAL_CHUNK_COUNT - 1) |->
                  chunk_buffers(uw[1], v - 1, uw[2], meshes[uw][v])]
          ELSE buffered[uw]]

\* the loop over the visible range in create_buffers: an iteration inserts its
\* own column only, so the columns inserted are those that pass the two tests
with_buffers(buffered, inserted, meshes) ==
    [uw \in DOMAIN buffered \cup inserted |->
          IF uw \in inserted
          THEN [v \in 1..VERTICAL_CHUNK_COUNT |->
                  chunk_buffers(uw[1], v - 1, uw[2], meshes[uw][v])]
          ELSE buffered[uw]]

\* create_buffers that keeps the buffers of the visible columns only
create_buffers_visible_only(buffered, visible, task_list, meshes) ==
    with_buffers([uw \in DOMAIN buffered \cap Range(visible) |-> buffered[uw]],
                 {uw \in Range(visible) :
                    IF in_flight(task_list, uw) THEN FALSE
                    ELSE uw \notin DOMAIN buffered /\ uw \in DOMAIN meshes},
                 meshes)

create_buffers(buffered, visible, task_list, meshes) ==
    with_buffers(buffered,
                 {uw \in Range(visible) :
                    IF in_flight(task_list, uw) THEN FALSE
                    ELSE uw \notin DOMAIN buffered /\ uw \in DOMAIN meshes},
                 meshes)

\* WorldLoader::get_buffer: [panicked, value]; `v as usize` of a negative v is
\* beyond every Vec length
get_buffer(buffered, uvw) ==
    LET uw == <<uvw[1], uvw[3]>>
        v == uvw[2]
    IN IF uw \in DOMAIN buffered
       THEN IF v >= 0 /\ v < Len(buffered[uw])
            THEN [panicked |-> FALSE, value |-> Some(buffered[uw][v + 1])]
            ELSE [panicked |-> TRUE, value |-> None]
       ELSE [panicked |-> FALSE, value |-> None]

\* the columns and levels get_buffer is asked for
QueryCols == (0..MaxCam) \X {0}

QueryLevels == {-1, 0, VERTICAL_CHUNK_COUNT}

\* ------------------------------------------------------------------- state
\* no unit run: the loader runs
NoCall == [op |-> "none"]

\* WorldLoader::new(World::new(seed), view_distance)
new(view_distance) ==
    /\ chunk_view_distance = view_distance
    /\ noise = SEED
    /\ chunk_stacks = EmptyMap
    /\ chunk_meshes = EmptyMap
    /\ buffered_chunks = EmptyMap
    /\ tasks = <<>>
    /\ chunk_columns = EmptyMap
    /\ meshed_chunks = EmptyMap
    /\ panic = "none"
    /\ camera = <<0, 0>>
    /\ lastOp = "new"
    /\ dispatched = 0
    /\ harvested = 0
    /\ joins = EmptyMap
    /\ waited = FALSE
    /\ call = NoCall

Init == \E view_distance \in 0..MaxViewDistance : new(view_distance)

\* the driver's state as complete_finished_threads sees it
loader_state ==
    [tasks |-> tasks, chunk_stacks |-> chunk_stacks, chunk_meshes |-> chunk_meshes,
     harvested |-> 0, joins |-> joins,
     waited |-> waited, panic |-> panic]

\* thread::spawn and tasks.push for every batch
spawn_all(batches, seed) == [k \in 1..Len(batches) |-> spawn(batches[k], seed)]

\* batches_of that takes the requests from the back of the list
batches_of_from_back(pending, in_flight_count, chunks_per_task) ==
    IF pending = <<>> THEN <<>>
    ELSE make_batches(<<>>, [k \in 1..Len(pending) |-> pending[Len(pending) + 1 - k]],
                      in_flight_count, chunks_per_task)

\* update returns early when there is no request
batches_of(pending, in_flight_count, chunks_per_task) ==
    IF pending = <<>> THEN <<>>
    ELSE make_batches(<<>>, pending, in_flight_count, chunks_per_task)

\* the tasks update pushes after the harvest left state st
new_tasks(st, cam) ==
    Bind(chunks_to_mesh(visible_chunk_range_uw(cam, chunk_view_distance),
                        st.tasks, st.chunk_meshes, st.chunk_stacks),
         LAMBDA pending :
            Bind(batches_of(pending, Len(st.tasks), 2 * chunk_view_distance + 1),
                 LAMBDA batches : spawn_all(batches, noise)))

\* WorldLoader::update(camera)
Update(cam) ==
    /\ panic = "none"
    /\ camera' = cam
    /\ lastOp' = "update"
    /\ UNCHANGED <<chunk_view_distance, noise, buffered_chunks, chunk_columns, meshed_chunks,
                   call>>
    /\ \E st \in {complete_finished_threads(loader_state, Len(tasks))} :
       \E spawned \in {IF st.panic = "none" THEN new_tasks(st, cam) ELSE <<>>} :
          /\ tasks' = st.tasks \o spawned
          /\ chunk_stacks' = st.chunk_stacks
          /\ chunk_meshes' = st.chunk_meshes
          /\ panic' = st.panic
          /\ harvested' = st.harvested
          /\ joins' = st.joins
          /\ waited' = st.waited
          /\ dispatched' = Len(spawned)

\* a thread that writes its meshes into the mesh cache itself as it ends
thread_ends_merging(i, p) ==
    /\ panic = "none"
    /\ i \in DOMAIN tasks
    /\ ~tasks[i].handle.finished
    /\ p => Cardinality({j \in DOMAIN tasks : tasks[j].handle.panicked}) < MaxPanics
    /\ tasks' = [tasks EXCEPT ![i].handle.finished = TRUE, ![i].handle.panicked = p]
    /\ chunk_meshes' = MapInsert(chunk_meshes, tasks[i].uw_list[1],
                                 thread_body(tasks[i].handle.batch, tasks[i].handle.noise)[1].chunk_meshes)
    /\ UNCHANGED <<chunk_view_distance, noise, chunk_stacks, buffered_chunks,
                   chunk_columns, meshed_chunks, panic, camera, lastOp, dispatched,
                   harvested, joins, waited, call>>

\* the background thread of tasks[i] ends: it returns from its closure
\* (p = FALSE) or panics in it (p = TRUE)
thread_ends(i, p) ==
    /\ panic = "none"
    /\ i \in DOMAIN tasks
    /\ ~tasks[i].handle.finished
    /\ p => Cardinality({j \in DOMAIN tasks : tasks[j].handle.panicked}) < MaxPanics
    /\ tasks' = [tasks EXCEPT ![i].handle.finished = TRUE, ![i].handle.panicked = p]
    /\ UNCHANGED <<chunk_view_distance, noise, chunk_stacks, chunk_meshes, buffered_chunks,
                   chunk_columns, meshed_chunks, panic, camera, lastOp, dispatched,
                   harvested, joins, waited, call>>

\* create_buffers that takes the meshes it buffers out of the mesh cache
CreateBuffersDraining(cam) ==
    /\ panic = "none"
    /\ buffered_chunks' = create_buffers(buffered_chunks,
                                         visible_chunk_range_uw(cam, chunk_view_distance),
                                         tasks, chunk_meshes)
    /\ chunk_meshes' = [c \in DOMAIN chunk_meshes \ (DOMAIN buffered_chunks' \ DOMAIN buffered_chunks)
                          |-> chunk_meshes[c]]
    /\ UNCHANGED <<chunk_view_distance, noise, chunk_stacks, tasks,
                   chunk_columns, meshed_chunks, panic, camera, lastOp, dispatched,
                   harvested, joins, waited, call>>

\* WorldLoader::create_buffers(camera, device, chunk_bind_group_layout)
CreateBuffers(cam) ==
    /\ panic = "none"
    /\ buffered_chunks' = create_buffers(buffered_chunks,
                                         visible_chunk_range_uw(cam, chunk_view_distance),
                                         tasks, chunk_meshes)
    /\ UNCHANGED <<chunk_view_distance, noise, chunk_stacks, chunk_meshes, tasks,
                   chunk_columns, meshed_chunks, panic, camera, lastOp, dispatched,
                   harvested, joins, waited, call>>

\* WorldLoader::get_buffer(uvw)
GetBuffer(uvw) ==
    /\ panic = "none"
    /\ panic' = IF get_buffer(buffered_chunks, uvw).panicked THEN "index" ELSE "none"
    /\ UNCHANGED <<chunk_view_distance, noise, chunk_stacks, chunk_meshes, buffered_chunks,
                   tasks, chunk_columns, meshed_chunks, camera, lastOp, dispatched,
                   harvested, joins, waited, call>>

\* a background thread ends, either way
TaskFinish(i) == \E p \in BOOLEAN : thread_ends(i, p)

\* a background thread returns its output
TaskReturn(i) == thread_ends(i, FALSE)

\* create_chunks that finds the duplicate only after it dropped the column's
\* mesh entries
CreateChunksLateCheck(u, w) ==
    /\ panic = "none"
    /\ IF <<u, w>> \in DOMAIN chunk_columns
       THEN /\ panic' = "duplicate"
            /\ meshed_chunks' = [k \in {x \in DOMAIN meshed_chunks : x[1] # u \/ x[3] # w} |->
                                    meshed_chunks[k]]
            /\ UNCHANGED chunk_columns
       ELSE \E chunk_column \in {generate_stack(noise, <<u, w>>)} :
               /\ chunk_columns' = MapInsert(chunk_columns, <<u, w>>, chunk_column)
               /\ meshed_chunks' =
                     [k \in DOMAIN meshed_chunks
                            \cup {<<u, v, w>> : v \in 0..(VERTICAL_CHUNK_COUNT - 1)} |->
                        IF k[1] = u /\ k[3] = w
                        THEN generate_mesh(chunk_column.chunks[k[2] + 1])
                        ELSE meshed_chunks[k]]
               /\ UNCHANGED panic
    /\ UNCHANGED <<chunk_view_distance, noise, chunk_stacks, chunk_meshes, buffered_chunks,
                   tasks, camera, lastOp, dispatched, harvested, joins, waited, call>>

\* World::create_chunks(u, w) of src/world.rs
CreateChunks(u, w) ==
    /\ panic = "none"
    /\ IF <<u, w>> \in DOMAIN chunk_columns
       THEN /\ panic' = "duplicate"
            /\ UNCHANGED <<chunk_columns, meshed_chunks>>
       ELSE \E chunk_column \in {generate_stack(noise, <<u, w>>)} :
               /\ chunk_columns' = MapInsert(chunk_columns, <<u, w>>, chunk_column)
               /\ meshed_chunks' =
                     [k \in DOMAIN meshed_chunks
                            \cup {<<u, v, w>> : v \in 0..(VERTICAL_CHUNK_COUNT - 1)} |->
                        IF k[1] = u /\ k[3] = w
                        THEN generate_mesh(chunk_column.chunks[k[2] + 1])
                        ELSE meshed_chunks[k]]
               /\ UNCHANGED panic
    /\ UNCHANGED <<chunk_view_distance, noise, chunk_stacks, chunk_meshes, buffered_chunks,
                   tasks, camera, lastOp, dispatched, harvested, joins, waited, call>>

Next ==
    \/ \E cam \in Cameras : Update(cam)
    \/ \E i \in 1..MAX_CHUNKS_THREAD_LIMIT : TaskFinish(i)
    \/ \E cam \in Cameras : CreateBuffers(cam)
    \/ \E uw \in QueryCols, v \in QueryLevels : GetBuffer(<<uw[1], v, uw[2]>>)

Spec == Init /\ [][Next]_vars

\* the steps of the driver's calls and of the background threads
UpdateStep == \E cam \in Cameras : Update(cam)

ThreadStep == \E i \in 1..MAX_CHUNKS_THREAD_LIMIT : TaskFinish(i)

CreateBuffersStep == \E cam \in Cameras : CreateBuffers(cam)

GetBufferStep == \E uw \in QueryCols, v \in QueryLevels : GetBuffer(<<uw[1], v, uw[2]>>)

\* The driver calls update every frame and every thread runs to its end.  The
\* first conjunct is WF_vars(UpdateStep) with its ENABLED written as a state
\* predicate: an update with another camera column changes the state, so
\* <<UpdateStep>>_vars is enabled exactly while the driver is alive.
LiveSpec ==
    /\ Spec
    /\ []<>(panic # "none") \/ []<><<UpdateStep>>_vars
    /\ \A i \in 1..MAX_CHUNKS_THREAD_LIMIT : WF_vars(TaskFinish(i))

\* invariant of Spec: that ENABLED is the driver being alive
UpdateStepEnabledIsExact == (panic = "none") <=> ENABLED <<UpdateStep>>_vars

\* ---- the loader at the smallest view distance whose first frame asks for
\* ---- more batches than MAX_CHUNKS_THREAD_LIMIT, the camera at rest, no panic.
\* ---- Nine tasks ending in any order leave the task list in more orders than
\* ---- can be enumerated; here the thread that ends next is the first or the
\* ---- last running one of the list, any number of them between two updates.
SaturatingViewDistance == MAX_CHUNKS_THREAD_LIMIT \div 2

CapInit == new(SaturatingViewDistance)

UpdateAtRest == Update(<<0, 0>>)

Running(task_list) == DOMAIN task_list \ {i \in DOMAIN task_list : task_list[i].handle.finished}

OuterTaskReturn(i) ==
    /\ i \in Running(tasks)
    /\ \/ \A j \in Running(tasks) : i <= j
       \/ \A j \in Running(tasks) : i >= j
    /\ TaskReturn(i)

CapNext ==
    \/ UpdateAtRest
    \/ \E i \in 1..MAX_CHUNKS_THREAD_LIMIT : OuterTaskReturn(i)

\* an update at rest that cannot be called or changes nothing: the driver is
\* dead, or the last call was an update that neither harvested nor spawned, no
\* thread has ended since, and there is no room under the limit or no visible
\* column left to request
UpdateAtRestIdle ==
    \/ panic # "none"
    \/ /\ lastOp = "update" /\ camera = <<0, 0>>
       /\ harvested = 0 /\ dispatched = 0
       /\ \A i \in DOMAIN tasks : ~tasks[i].handle.finished
       /\ \/ Len(tasks) >= MAX_CHUNKS_THREAD_LIMIT
          \/ \A c \in Range(visible_chunk_range_uw(<<0, 0>>, chunk_view_distance)) :
                in_flight(tasks, c) \/ c \in DOMAIN chunk_meshes

\* The first fairness conjunct is WF_vars(UpdateAtRest) with its ENABLED written
\* as a state predicate: <<UpdateAtRest>>_vars is enabled exactly in the states
\* where UpdateAtRestIdle is false.
CapSpec ==
    /\ CapInit
    /\ [][CapNext]_vars
    /\ []<>UpdateAtRestIdle \/ []<><<UpdateAtRest>>_vars
    /\ \A i \in 1..MAX_CHUNKS_THREAD_LIMIT : WF_vars(OuterTaskReturn(i))

\* invariant of CapSpec: UpdateAtRestIdle is the negation of that ENABLED
UpdateAtRestIdleIsExact == UpdateAtRestIdle <=> ~ENABLED <<UpdateAtRest>>_vars

\* ---- World of src/world.rs on its own
WorldNext == \E u \in 0..MaxKey, w \in 0..1 : CreateChunks(u, w)

WorldSpec == Init /\ [][WorldNext]_vars

\* ---- the loader on a World that already holds columns
\* WorldLoader::new(world, view_distance) for a World into which the columns
\* of a set were inserted, each as generated from the noise
new_on(columns, view_distance) ==
    /\ chunk_view_distance = view_distance
    /\ noise = SEED
    /\ chunk_stacks = [c \in columns |-> generate_stack(SEED, c)]
    /\ chunk_meshes = EmptyMap
    /\ buffered_chunks = EmptyMap
    /\ tasks = <<>>
    /\ chunk_columns = EmptyMap
    /\ meshed_chunks = EmptyMap
    /\ panic = "none"
    /\ camera = <<0, 0>>
    /\ lastOp = "new"
    /\ dispatched = 0
    /\ harvested = 0
    /\ joins = EmptyMap
    /\ waited = FALSE
    /\ call = NoCall

\* the Worlds of these runs: one or both of the columns a camera can stand in
ReuseInit ==
    \E view_distance \in 0..MaxViewDistance, columns \in (SUBSET Cameras) \ {{}} :
       new_on(columns, view_distance)

ReuseSpec == ReuseInit /\ [][Next]_vars

\* ---- the two visible-range functions on their own
\* the camera chunk coordinates (u, v, w) of a unit run: v from below the world
\* to above it, far enough for the range of levels to be empty
RangeCameras ==
    ((0 - MaxCoord)..MaxCoord)
    \X ((0 - MaxRing - 1)..(VERTICAL_CHUNK_COUNT + MaxRing))
    \X ((0 - MaxCoord)..MaxCoord)

VisibleChunkRangeUw(cam) ==
    /\ call = NoCall
    /\ call' = [op |-> "visible_chunk_range_uw", cam |-> cam,
                ret |-> visible_chunk_range_uw(<<cam[1], cam[3]>>, chunk_view_distance)]
    /\ UNCHANGED <<chunk_view_distance, noise, chunk_stacks, chunk_meshes, buffered_chunks,
                   tasks, chunk_columns, meshed_chunks, panic, camera, lastOp, dispatched,
                   harvested, joins, waited>>

VisibleChunkRangeUvw(cam) ==
    /\ call = NoCall
    /\ call' = [op |-> "visible_chunk_range_uvw", cam |-> cam,
                ret |-> visible_chunk_range_uvw(cam, chunk_view_distance)]
    /\ UNCHANGED <<chunk_view_distance, noise, chunk_stacks, chunk_meshes, buffered_chunks,
                   tasks, chunk_columns, meshed_chunks, panic, camera, lastOp, dispatched,
                   harvested, joins, waited>>

RangeInit == \E view_distance \in 0..MaxRing : new(view_distance)

RangeNext ==
    \/ \E cam \in RangeCameras : VisibleChunkRangeUw(cam)
    \/ \E cam \in RangeCameras : VisibleChunkRangeUvw(cam)

RangeSpec == RangeInit /\ [][RangeNext]_vars

\* ---- generate_stack on one (x, z) cell of a column
\* the cells of a unit run: a corner of the halo ring, interior cells at the
\* rim, a cell of the halo ring's far side
GenCells == {<<-1, -1>>, <<0, CHUNK_WIDTH - 1>>, <<CHUNK_WIDTH, 0>>}

\* the body of the loops over x and z of generate_stack up to block_array
GenerateStackCell(x, z, n, exponent) ==
    /\ call = NoCall
    /\ call' = [op |-> "generate_stack", x |-> x, z |-> z,
                height |-> height_of(n, exponent),
                block_array |-> block_array(height_of(n, exponent)),
                chunk_stack |-> empty_stack(<<0, 0>>),
                panicked |-> FALSE, done |-> FALSE]
    /\ UNCHANGED <<chunk_view_distance, noise, chunk_stacks, chunk_meshes, buffered_chunks,
                   tasks, chunk_columns, meshed_chunks, panic, camera, lastOp, dispatched,
                   harvested, joins, waited>>

\* one pass of `for y in range`: insert_into_chunk_stack of the next y
InsertIntoChunkStack ==
    /\ call.op = "generate_stack" /\ ~call.done /\ ~call.panicked
    /\ \E ranges \in {skip_empty(call.block_array)} :
          /\ ranges # <<>>
          /\ \E inserted \in {insert_into_chunk_stack(call.chunk_stack, call.x, ranges[1].lo,
                                                      call.z, ranges[1].block)} :
                call' = [call EXCEPT !.chunk_stack = inserted.chunk_stack,
                                     !.panicked = inserted.panicked,
                                     !.block_array = <<[ranges[1] EXCEPT !.lo = @ + 1]>>
                                                     \o Tail(ranges)]
    /\ UNCHANGED <<chunk_view_distance, noise, chunk_stacks, chunk_meshes, buffered_chunks,
                   tasks, chunk_columns, meshed_chunks, panic, camera, lastOp, dispatched,
                   harvested, joins, waited>>

\* the end of the loop body: the height of an interior cell is recorded
RecordHeight ==
    /\ call.op = "generate_stack" /\ ~call.done /\ ~call.panicked
    /\ skip_empty(call.block_array) = <<>>
    /\ call' = [call EXCEPT !.chunk_stack = with_height(@, call.x, call.z, call.height),
                            !.block_array = <<>>,
                            !.done = TRUE]
    /\ UNCHANGED <<chunk_view_distance, noise, chunk_stacks, chunk_meshes, buffered_chunks,
                   tasks, chunk_columns, meshed_chunks, panic, camera, lastOp, dispatched,
                   harvested, joins, waited>>

GenInit == new(0)

GenNext ==
    \/ \E cell \in GenCells, n \in 0..HeightGrid, exponent \in Exponents :
          GenerateStackCell(cell[1], cell[2], n, exponent)
    \/ InsertIntoChunkStack
    \/ RecordHeight

GenSpec == GenInit /\ [][GenNext]_vars

\* the block at global y of the cell of the run
BlockAt(chunk_stack, x, global_y, z) ==
    at(chunk_stack.chunks[global_y \div CHUNK_WIDTH + 1], x, global_y % CHUNK_WIDTH, z).value

\* ---- Chunk::at and Chunk::at_mut on their own
\* the coordinates of a unit run: both ends of -1..=CHUNK_WIDTH, the values next
\* to them on either side
ProbeCoords == {-2, -1, 0, CHUNK_WIDTH - 1, CHUNK_WIDTH, CHUNK_WIDTH + 1}

\* the chunk of a unit run: air with one stone
probe_chunk == at_mut(air_chunk, 0, 0, 0, "STONE").chunk

\* chunk.at(x, y, z)
ChunkAt(x, y, z) ==
    /\ call = NoCall
    /\ \E ret \in {at(probe_chunk, x, y, z)} :
          call' = [op |-> "at", x |-> x, y |-> y, z |-> z,
                   panicked |-> ret.panicked, index |-> ret.index, value |-> ret.value,
                   chunk |-> probe_chunk]
    /\ UNCHANGED <<chunk_view_distance, noise, chunk_stacks, chunk_meshes, buffered_chunks,
                   tasks, chunk_columns, meshed_chunks, panic, camera, lastOp, dispatched,
                   harvested, joins, waited>>

\* *chunk.at_mut(x, y, z) = Block::GRASS
ChunkAtMut(x, y, z) ==
    /\ call = NoCall
    /\ \E ret \in {at_mut(probe_chunk, x, y, z, "GRASS")} :
          call' = [op |-> "at_mut", x |-> x, y |-> y, z |-> z,
                   panicked |-> ret.panicked, index |-> ret.index, value |-> None,
                   chunk |-> ret.chunk]
    /\ UNCHANGED <<chunk_view_distance, noise, chunk_stacks, chunk_meshes, buffered_chunks,
                   tasks, chunk_columns, meshed_chunks, panic, camera, lastOp, dispatched,
                   harvested, joins, waited>>

ChunkInit == new(0)

ChunkNext ==
    \/ \E x, y, z \in ProbeCoords : ChunkAt(x, y, z)
    \/ \E x, y, z \in ProbeCoords : ChunkAtMut(x, y, z)

ChunkSpec == ChunkInit /\ [][ChunkNext]_vars

\* ---- the mesher on chunks of a few voxels
\* the chunk after a list of writes <<coordinates, block>> through at_mut
RECURSIVE with_blocks(_, _)
with_blocks(chunk, writes) ==
    IF writes = <<>> THEN chunk
    ELSE with_blocks(at_mut(chunk, writes[1][1][1], writes[1][1][2], writes[1][1][3],
                            writes[1][2]).chunk,
                     Tail(writes))

\* the voxels of a unit run: two opposite corners of the interior, which
\* between them have a neighbour in the halo in each of the six directions
MeshVoxels == {<<0, 0, 0>>, <<CHUNK_WIDTH - 1, CHUNK_WIDTH - 1, CHUNK_WIDTH - 1>>}

\* the eight cells around the cell in front of a face: its neighbours along
\* the two cross directions and the four diagonal ones
ring_cells(air_block, cross) ==
    <<go(air_block, cross[1], -1), go(air_block, cross[1], 1),
      go(air_block, cross[2], -1), go(air_block, cross[2], 1),
      go(go(air_block, cross[1], -1), cross[2], -1),
      go(go(air_block, cross[1], -1), cross[2], 1),
      go(go(air_block, cross[1], 1), cross[2], -1),
      go(go(air_block, cross[1], 1), cross[2], 1)>>

\* generate_mesh of a chunk with one voxel and its six neighbours
MeshNeighbours(voxel, block, neighbours) ==
    /\ call = NoCall
    /\ \E chunk \in {with_blocks(air_chunk,
                                 <<<<voxel, block>>>>
                                 \o [k \in 1..6 |-> <<go(voxel, k - 1, 1), neighbours[k]>>])} :
          call' = [op |-> "generate_mesh", voxel |-> voxel, chunk |-> chunk,
                   ret |-> generate_mesh_voxels(chunk)]
    /\ UNCHANGED <<chunk_view_distance, noise, chunk_stacks, chunk_meshes, buffered_chunks,
                   tasks, chunk_columns, meshed_chunks, panic, camera, lastOp, dispatched,
                   harvested, joins, waited>>

\* generate_mesh of a chunk with one stone and, around the cell in front of one
\* of its faces, stone in some of the eight cells and the filler in the others
MeshOccluders(voxel, direction, occluders, filler) ==
    /\ call = NoCall
    /\ \E chunk \in {with_blocks(air_chunk,
                                 <<<<voxel, "STONE">>>>
                                 \o [k \in 1..8 |->
                                       <<ring_cells(go(voxel, direction, 1),
                                                    cross_directions(direction))[k],
                                         IF k \in occluders THEN "STONE" ELSE filler>>])} :
          call' = [op |-> "generate_mesh", voxel |-> voxel, chunk |-> chunk,
                   ret |-> generate_mesh_voxels(chunk)]
    /\ UNCHANGED <<chunk_view_distance, noise, chunk_stacks, chunk_meshes, buffered_chunks,
                   tasks, chunk_columns, meshed_chunks, panic, camera, lastOp, dispatched,
                   harvested, joins, waited>>

\* generate_mesh of a chunk with one solid voxel
MeshSingle(voxel, block) ==
    /\ call = NoCall
    /\ \E chunk \in {with_blocks(air_chunk, <<<<voxel, block>>>>)} :
          call' = [op |-> "generate_mesh", voxel |-> voxel, chunk |-> chunk,
                   ret |-> generate_mesh_voxels(chunk)]
    /\ UNCHANGED <<chunk_view_distance, noise, chunk_stacks, chunk_meshes, buffered_chunks,
                   tasks, chunk_columns, meshed_chunks, panic, camera, lastOp, dispatched,
                   harvested, joins, waited>>

\* the attributes generate_mesh packs for a face of a voxel
PackAttributes(voxel, block, direction) ==
    /\ call = NoCall
    /\ call' = [op |-> "attributes", voxel |-> voxel, block |-> block, direction |-> direction,
                ret |-> face_attributes(voxel[1], voxel[2], voxel[3],
                                        texture_index(block).value, direction)]
    /\ UNCHANGED <<chunk_view_distance, noise, chunk_stacks, chunk_meshes, buffered_chunks,
                   tasks, chunk_columns, meshed_chunks, panic, camera, lastOp, dispatched,
                   harvested, joins, waited>>

\* coordinates inside a chunk at both ends, next to them and around the middle
InteriorCoords == {0, 1, CHUNK_WIDTH \div 2 - 1, CHUNK_WIDTH \div 2, CHUNK_WIDTH - 2, CHUNK_WIDTH - 1}

MeshInit == new(0)

MeshNext ==
    \/ \E voxel \in InteriorCoords \X InteriorCoords \X InteriorCoords,
          block \in {"STONE", "SNOW"} :
          MeshSingle(voxel, block)
    \/ \E voxel \in MeshVoxels, block \in {"AIR", "STONE", "WATER"},
          neighbours \in [1..6 -> {"AIR", "GRASS", "WATER"}] :
          MeshNeighbours(voxel, block, neighbours)
    \/ \E voxel \in MeshVoxels, direction \in 0..5, occluders \in SUBSET (1..8),
          filler \in {"AIR", "WATER"} :
          MeshOccluders(voxel, direction, occluders, filler)

MeshSpec == MeshInit /\ [][MeshNext]_vars

\* ---- the attributes of the faces of the voxels of a chunk
PackInit == new(0)

PackNext ==
    \E voxel \in InteriorCoords \X InteriorCoords \X InteriorCoords,
       block \in Blocks \ {"AIR"}, direction \in 0..5 :
       PackAttributes(voxel, block, direction)

PackSpec == PackInit /\ [][PackNext]_vars

\* ---- steps of coordinates
\* the values of a component: the two ends of the halo and of the interior
CoordValues == {-1, 0, CHUNK_WIDTH - 1, CHUNK_WIDTH}

\* the distances of a step: get_ao_attributes steps by -1 and 1
Distances == {-2, -1, 0, 1, 2}

\* the direction opposite to a direction: NegX and X, NegY and Y, NegZ and Z
Opposite(direction) == IF direction % 2 = 0 THEN direction + 1 ELSE direction - 1

\* self.go(direction, distance), and the step back from its result; go
\* borrows self and works on a clone, so self is after the call what it was
Go(coordinates, direction, distance) ==
    /\ call = NoCall
    /\ call' = [op |-> "go", self |-> coordinates, direction |-> direction,
                distance |-> distance,
                ret |-> go(coordinates, direction, distance),
                self_after |-> coordinates,
                back |-> go(go(coordinates, direction, distance), Opposite(direction), distance)]
    /\ UNCHANGED <<chunk_view_distance, noise, chunk_stacks, chunk_meshes, buffered_chunks,
                   tasks, chunk_columns, meshed_chunks, panic, camera, lastOp, dispatched,
                   harvested, joins, waited>>

\* two steps from self, in both orders
GoTwice(coordinates, first, second) ==
    /\ call = NoCall
    /\ call' = [op |-> "go_twice", self |-> coordinates, first |-> first, second |-> second,
                ret |-> go(go(coordinates, first[1], first[2]), second[1], second[2]),
                swapped |-> go(go(coordinates, second[1], second[2]), first[1], first[2])]
    /\ UNCHANGED <<chunk_view_distance, noise, chunk_stacks, chunk_meshes, buffered_chunks,
                   tasks, chunk_columns, meshed_chunks, panic, camera, lastOp, dispatched,
                   harvested, joins, waited>>

CoordInit == new(0)

CoordNext ==
    \/ \E coordinates \in CoordValues \X CoordValues \X CoordValues,
          direction \in 0..5, distance \in Distances :
          Go(<<coordinates[1], coordinates[2], coordinates[3]>>, direction, distance)
    \/ \E coordinates \in {-1, CHUNK_WIDTH} \X {-1, CHUNK_WIDTH} \X {-1, CHUNK_WIDTH},
          first \in (0..5) \X {-1, 1, 2}, second \in (0..5) \X {-1, 1, 2} :
          GoTwice(<<coordinates[1], coordinates[2], coordinates[3]>>, first, second)

CoordSpec == CoordInit /\ [][CoordNext]_vars

\* ---- the batches of one update
\* the part of update after the loop over the visible range, for the
\* requests of the first pending_count visible columns, none generated, and
\* in_flight_count tasks in flight
Dispatch(pending_count, in_flight_count) ==
    /\ call = NoCall
    /\ pending_count <= Len(visible_chunk_range_uw(<<0, 0>>, chunk_view_distance))
    /\ \E pending \in {requests(SubSeq(visible_chunk_range_uw(<<0, 0>>, chunk_view_distance),
                                       1, pending_count), EmptyMap)} :
          call' = [op |-> "dispatch", pending |-> pending, in_flight_count |-> in_flight_count,
                   ret |-> spawn_all(batches_of(pending, in_flight_count,
                                                2 * chunk_view_distance + 1), noise)]
    /\ UNCHANGED <<chunk_view_distance, noise, chunk_stacks, chunk_meshes, buffered_chunks,
                   tasks, chunk_columns, meshed_chunks, panic, camera, lastOp, dispatched,
                   harvested, joins, waited>>

BatchInit == \E view_distance \in 0..MaxRing : new(view_distance)

BatchNext ==
    \E pending_count \in 0..((2 * MaxRing + 1) * (2 * MaxRing + 1)),
       in_flight_count \in 0..MAX_CHUNKS_THREAD_LIMIT :
       Dispatch(pending_count, in_flight_count)

BatchSpec == BatchInit /\ [][BatchNext]_vars

\* ---- the addressing of the cells of a chunk
\* the values of a component at both ends of the range -1..=CHUNK_WIDTH
AddressCoords == {-1, 0, CHUNK_WIDTH - 1, CHUNK_WIDTH}

\* *chunk.at_mut(written) = STONE on a chunk of air, then chunk.at(read)
WriteThenRead(written, read) ==
    /\ call = NoCall
    /\ \E after \in {at_mut(air_chunk, written[1], written[2], written[3], "STONE")} :
          call' = [op |-> "write_read", written |-> written, read |-> read,
                   write_index |-> after.index,
                   read_index |-> at(after.chunk, read[1], read[2], read[3]).index,
                   before |-> at(air_chunk, read[1], read[2], read[3]).value,
                   ret |-> at(after.chunk, read[1], read[2], read[3]).value]
    /\ UNCHANGED <<chunk_view_distance, noise, chunk_stacks, chunk_meshes, buffered_chunks,
                   tasks, chunk_columns, meshed_chunks, panic, camera, lastOp, dispatched,
                   harvested, joins, waited>>

\* the indexes at and at_mut compute for all the coordinates they accept
AllIndexes ==
    /\ call = NoCall
    /\ call' = [op |-> "indexes",
                ret |-> {index_of(x, y, z) : x \in -1..CHUNK_WIDTH, y \in -1..CHUNK_WIDTH,
                                             z \in -1..CHUNK_WIDTH}]
    /\ UNCHANGED <<chunk_view_distance, noise, chunk_stacks, chunk_meshes, buffered_chunks,
                   tasks, chunk_columns, meshed_chunks, panic, camera, lastOp, dispatched,
                   harvested, joins, waited>>

AddressInit == new(0)

AddressNext ==
    \/ AllIndexes
    \/ \E written \in AddressCoords \X AddressCoords \X AddressCoords,
          read \in AddressCoords \X AddressCoords \X AddressCoords :
          WriteThenRead(written, read)

AddressSpec == AddressInit /\ [][AddressNext]_vars

\* ---- the look-ups of the mesher
\* ao_reads around the cell two steps in front of the face
ao_reads_far(block, direction) ==
    [k \in 1..12 |->
        corner_cells(go(block, direction, 2), cross_directions(direction), (k - 1) \div 3)
            [((k - 1) % 3) + 1]]

\* the cells get_ao_attributes reads, in its order: side 1, side 2 and corner
\* of the corners 0..3
ao_reads(block, direction) ==
    [k \in 1..12 |->
        corner_cells(go(block, direction, 1), cross_directions(direction), (k - 1) \div 3)
            [((k - 1) % 3) + 1]]

\* self.get_ao_attributes(block, direction) on a chunk of air with a stone at
\* block: the cross directions chosen, the cells read, whether a read failed
GetAoAttributes(block, direction) ==
    /\ call = NoCall
    /\ \E chunk \in {with_blocks(air_chunk, <<<<block, "STONE">>>>)},
          reads \in {ao_reads(block, direction)} :
          call' = [op |-> "get_ao_attributes", block |-> block, direction |-> direction,
                   cross |-> cross_directions(direction),
                   air_block |-> go(block, direction, 1),
                   reads |-> reads,
                   panicked |-> \E k \in DOMAIN reads : at_coords(chunk, reads[k]).panicked]
    /\ UNCHANGED <<chunk_view_distance, noise, chunk_stacks, chunk_meshes, buffered_chunks,
                   tasks, chunk_columns, meshed_chunks, panic, camera, lastOp, dispatched,
                   harvested, joins, waited>>

\* the look-ups of the body of the loops of generate_mesh for the voxel
\* (x, y, z): the cells read through at and at_coords, and the blocks whose
\* texture index is asked for
voxel_lookups(chunk, x, y, z) ==
    LET block == at(chunk, x, y, z).value[1]
        block_type == get_block_type(block)
    IN IF block_type = "INVISIBLE" THEN [reads |-> {<<x, y, z>>}, textured |-> {}]
       ELSE Bind(directions_of(chunk, x, y, z, block_type),
                 LAMBDA directions :
                    [reads |-> {<<x, y, z>>}
                               \cup {go(<<x, y, z>>, direction, 1) : direction \in 0..5}
                               \cup (IF block_type = "SOLID"
                                     THEN UNION {Range(ao_reads(<<x, y, z>>, directions[k])) :
                                                    k \in DOMAIN directions}
                                     ELSE {}),
                     textured |-> {block}])

\* the body of the loops of generate_mesh for one voxel of a chunk that holds
\* a block there and a filler in its six neighbours: the look-ups made and
\* whether one of them failed
GenerateMeshVoxel(voxel, block, filler) ==
    /\ call = NoCall
    /\ \E chunk \in {with_blocks(air_chunk,
                                 <<<<voxel, block>>>>
                                 \o [k \in 1..6 |-> <<go(voxel, k - 1, 1), filler>>])} :
          \E lookups \in {voxel_lookups(chunk, voxel[1], voxel[2], voxel[3])} :
             call' = [op |-> "generate_mesh_voxel", voxel |-> voxel, block |-> block,
                      filler |-> filler,
                      reads |-> lookups.reads,
                      textured |-> lookups.textured,
                      panicked |-> \/ \E c \in lookups.reads : at_coords(chunk, c).panicked
                                   \/ \E b \in lookups.textured : texture_index(b).panicked]
    /\ UNCHANGED <<chunk_view_distance, noise, chunk_stacks, chunk_meshes, buffered_chunks,
                   tasks, chunk_columns, meshed_chunks, panic, camera, lastOp, dispatched,
                   harvested, joins, waited>>

LookupInit == new(0)

LookupNext ==
    \/ \E block \in InteriorCoords \X InteriorCoords \X InteriorCoords, direction \in 0..5 :
          GetAoAttributes(block, direction)
    \/ \E voxel \in InteriorCoords \X InteriorCoords \X InteriorCoords, block \in Blocks,
          filler \in {"AIR", "STONE", "WATER"} :
          GenerateMeshVoxel(voxel, block, filler)

LookupSpec == LookupInit /\ [][LookupNext]_vars

\* ------------------------------------------------------------ vocabulary
\* the columns tagged by the tasks of a list
Tagged(task_list) == UNION {Range(task_list[i].uw_list) : i \in DOMAIN task_list}

\* the tag lists of a task list, in order
TagLists(task_list) == [i \in DOMAIN task_list |-> task_list[i].uw_list]

\* the columns of the visible range of a camera
Visible(cam) == Range(visible_chunk_range_uw(cam, chunk_view_distance))

\* the tasks the last update spawned are the last `dispatched` ones of tasks
OlderTasks == SubSeq(tasks, 1, Len(tasks) - dispatched)

DispatchedTasks == SubSeq(tasks, Len(tasks) - dispatched + 1, Len(tasks))

\* the tasks of a list whose thread has ended
Finished(task_list) == {i \in DOMAIN task_list : task_list[i].handle.finished}

\* ------------------------------------------------------------------ claims
\* C1: when update is called again with an unmoved camera, no task it spawns
\* is tagged with a column of the mesh cache.  (The camera of CapSpec never
\* moves, so every update after the first is such a call.)
C1_NoRedundantWork ==
    lastOp = "update" => Tagged(DispatchedTasks) \cap DOMAIN chunk_meshes = {}

\* C1 witness: a later update with the unmoved camera spawned a task for the
\* columns still missing while other visible columns were cached already.
C1_Witness ==
    /\ lastOp = "update" /\ dispatched >= 1
    /\ Visible(camera) \cap DOMAIN chunk_meshes # {}
    /\ Tagged(DispatchedTasks) # {}

\* C2: no column is tagged twice, in one in-flight task or in two, and no
\* in-flight column is in the mesh cache: update requests a visible column only
\* if it is neither tagged by an in-flight task nor cached.
C2_UniqueTags ==
    /\ \A i, j \in DOMAIN tasks :
         \A k \in DOMAIN tasks[i].uw_list, l \in DOMAIN tasks[j].uw_list :
            tasks[i].uw_list[k] = tasks[j].uw_list[l] => (i = j /\ k = l)
    /\ Tagged(tasks) \cap DOMAIN chunk_meshes = {}
    /\ Tagged(DispatchedTasks) \subseteq Visible(camera)

\* C2 witness: an update spawned a task while an older task was still in flight
\* for a column of the visible range, and another visible column was cached.
C2_Witness ==
    /\ lastOp = "update" /\ dispatched >= 1
    /\ Tagged(OlderTasks) \cap Visible(camera) # {}
    /\ DOMAIN chunk_meshes \cap Visible(camera) # {}

\* C4: an update that returns leaves no task in flight whose thread had ended
\* when it was polled, and adds to World and to the mesh cache exactly the
\* columns tagged by those tasks, each with VERTICAL_CHUNK_COUNT mesh entries.
C4_HarvestExact ==
    [][(UpdateStep /\ panic' = "none") =>
          /\ \A j \in DOMAIN tasks' : ~tasks'[j].handle.finished
          /\ harvested' = Cardinality(Finished(tasks))
          /\ DOMAIN chunk_meshes' \ DOMAIN chunk_meshes
               = UNION {Range(tasks[i].uw_list) : i \in Finished(tasks)}
          /\ DOMAIN chunk_stacks' \ DOMAIN chunk_stacks
               = UNION {Range(tasks[i].uw_list) : i \in Finished(tasks)}
          /\ \A c \in DOMAIN chunk_meshes' : Len(chunk_meshes'[c]) = VERTICAL_CHUNK_COUNT
          /\ \A c \in DOMAIN chunk_stacks' :
                chunk_stacks'[c].u = c[1] /\ chunk_stacks'[c].w = c[2]
      ]_vars

\* C4 witness: an update harvested two tasks and left an older one in flight.
C4_Witness ==
    /\ lastOp = "update" /\ panic = "none"
    /\ harvested >= 2
    /\ Len(OlderTasks) >= 1

\* C5: the driver never joins a thread that has not ended; a task whose thread
\* has not ended when update polls it stays in flight as it is; create_buffers
\* and get_buffer join nothing.
C5_NeverWaits ==
    [][/\ ~waited'
       /\ UpdateStep =>
             \A i \in DOMAIN tasks \ Finished(tasks) :
                \E j \in DOMAIN tasks' : tasks'[j] = tasks[i]
       /\ (CreateBuffersStep \/ GetBufferStep) => (joins' = joins /\ tasks' = tasks)
      ]_vars

\* C5 witness: an update harvested a task while an older one was still running.
C5_Witness ==
    /\ lastOp = "update"
    /\ harvested >= 1
    /\ \E i \in DOMAIN OlderTasks : ~OlderTasks[i].handle.finished

\* C3: at most MAX_CHUNKS_THREAD_LIMIT tasks are in flight, in every state: an
\* update that keeps k tasks in flight after its harvest spawns at most
\* MAX_CHUNKS_THREAD_LIMIT - k tasks, and none when k is the limit.
C3_InFlightCap ==
    /\ Len(tasks) <= MAX_CHUNKS_THREAD_LIMIT
    /\ lastOp = "update" =>
          /\ dispatched <= MAX_CHUNKS_THREAD_LIMIT - Len(OlderTasks)
          /\ Len(OlderTasks) = MAX_CHUNKS_THREAD_LIMIT => dispatched = 0

\* C3 witness: an update found the limit of tasks in flight, none of them
\* ended, and spawned nothing although visible columns were still unrequested.
C3_Witness ==
    /\ lastOp = "update" /\ dispatched = 0 /\ harvested = 0
    /\ Len(tasks) = MAX_CHUNKS_THREAD_LIMIT
    /\ Visible(camera) \ (Tagged(tasks) \cup DOMAIN chunk_meshes) # {}

\* C6: no task is joined twice; a task leaves the in-flight list only by being
\* joined, and unless that update dies its columns are merged, visible or not;
\* while update keeps being called, a task whose thread has ended is harvested.
C6_JoinedOnce ==
    /\ [](\A c \in DOMAIN joins : joins[c] <= 1)
    /\ [][\A i \in DOMAIN tasks :
             tasks[i].uw_list \notin Range(TagLists(tasks')) =>
                /\ tasks[i].handle.finished
                /\ \A c \in Range(tasks[i].uw_list) :
                      /\ c \in DOMAIN joins' /\ c \notin DOMAIN joins
                      /\ panic' = "none" => c \in DOMAIN chunk_meshes' /\ c \in DOMAIN chunk_stacks'
         ]_vars
    /\ \A c \in AllCols :
          (\E i \in Finished(tasks) : c \in Range(tasks[i].uw_list))
             ~> ((c \in DOMAIN joins /\ c \notin Tagged(tasks)) \/ panic # "none")

\* C6 witness: an update harvested a task after the camera had moved on: the
\* cache holds merged columns and none of them is visible.
C6_Witness ==
    /\ lastOp = "update" /\ panic = "none" /\ harvested >= 1
    /\ DOMAIN chunk_meshes # {}
    /\ DOMAIN chunk_meshes \cap Visible(camera) = {}
    /\ \A c \in DOMAIN chunk_meshes : joins[c] = 1

\* C7: with the camera at rest, update called again and again and every thread
\* returning, eventually every visible column is cached and no task is in
\* flight, for good; and update spawns nothing from such a state.
C7_ServedLater ==
    /\ <>[](/\ Visible(<<0, 0>>) \subseteq DOMAIN chunk_meshes
            /\ Cardinality(DOMAIN chunk_meshes)
                 = (2 * chunk_view_distance + 1) * (2 * chunk_view_distance + 1)
            /\ tasks = <<>>)
    /\ [][(Visible(<<0, 0>>) \subseteq DOMAIN chunk_meshes /\ tasks = <<>> /\ UpdateAtRest)
             => (dispatched' = 0 /\ tasks' = <<>>)]_vars

\* C7 witness: all (2d+1)^2 visible columns are cached, nothing is in flight,
\* and more frames were needed than the first one.
C7_Witness ==
    /\ Cardinality(DOMAIN chunk_meshes) = (2 * chunk_view_distance + 1) * (2 * chunk_view_distance + 1)
    /\ Visible(camera) \subseteq DOMAIN chunk_meshes
    /\ tasks = <<>>
    /\ Cardinality(DOMAIN chunk_meshes) > MAX_CHUNKS_THREAD_LIMIT * (2 * chunk_view_distance + 1)

\* C8: a thread's panic changes nothing of the driver until it is joined; the
\* update that joins a panicked task dies, adds none of that task's columns to
\* World or to the mesh cache and spawns nothing.
C8_PanicAtJoin ==
    [][/\ panic' = "thread" =>
             /\ UpdateStep
             /\ \E i \in Finished(tasks) : tasks[i].handle.panicked
       /\ UpdateStep =>
             \A i \in Finished(tasks) :
                (/\ tasks[i].handle.panicked
                 /\ \A j \in Finished(tasks) : j > i => ~tasks[j].handle.panicked) =>
                   /\ panic' = "thread"
                   /\ Range(tasks[i].uw_list) \cap DOMAIN chunk_meshes' = {}
                   /\ Range(tasks[i].uw_list) \cap DOMAIN chunk_stacks' = {}
                   /\ Range(tasks[i].uw_list) \cap Tagged(tasks') = {}
                   /\ dispatched' = 0
                   /\ Len(tasks') < Len(tasks)
      ]_vars

\* C8 witness: an update merged one task and then died joining a panicked one.
C8_Witness ==
    /\ panic = "thread"
    /\ harvested >= 2
    /\ DOMAIN chunk_meshes # {}

\* C9: a step of a background thread changes neither World's columns nor the
\* mesh cache, the buffered cache, the tag lists, or any task's batch and noise
\* copy; World and the mesh cache change only in an update that joined a task,
\* the in-flight list only in an update's harvest or dispatch, the buffered
\* cache only in create_buffers.
C9_DriverOnly ==
    [][/\ ThreadStep =>
             /\ chunk_stacks' = chunk_stacks /\ chunk_meshes' = chunk_meshes
             /\ buffered_chunks' = buffered_chunks
             /\ TagLists(tasks') = TagLists(tasks)
             /\ \A i \in DOMAIN tasks :
                   /\ tasks'[i].handle.batch = tasks[i].handle.batch
                   /\ tasks'[i].handle.noise = tasks[i].handle.noise
       /\ (chunk_stacks' # chunk_stacks \/ chunk_meshes' # chunk_meshes) =>
             (UpdateStep /\ harvested' >= 1)
       /\ TagLists(tasks') # TagLists(tasks) =>
             (UpdateStep /\ (harvested' >= 1 \/ dispatched' >= 1))
       /\ buffered_chunks' # buffered_chunks => CreateBuffersStep
      ]_vars

\* C9 witness: a thread has ended unharvested while both caches hold columns.
C9_Witness ==
    /\ Finished(tasks) # {}
    /\ DOMAIN chunk_meshes # {}
    /\ DOMAIN buffered_chunks # {}

\* C10: create_chunks of a column that is present is fatal and leaves the
\* column map and the mesh entries as they are; of an absent column it adds
\* that column and nothing else, and touches no mesh entry of another column.
C10_InsertOnce ==
    [][\E u \in 0..MaxKey, w \in 0..1 :
          \/ /\ <<u, w>> \in DOMAIN chunk_columns
             /\ panic' = "duplicate"
             /\ chunk_columns' = chunk_columns
             /\ meshed_chunks' = meshed_chunks
          \/ /\ <<u, w>> \notin DOMAIN chunk_columns
             /\ panic' = "none"
             /\ DOMAIN chunk_columns' = DOMAIN chunk_columns \cup {<<u, w>>}
             /\ \A c \in DOMAIN chunk_columns : chunk_columns'[c] = chunk_columns[c]
             /\ chunk_columns'[<<u, w>>] = generate_stack(noise, <<u, w>>)
             /\ \A k \in DOMAIN meshed_chunks :
                   k \in DOMAIN meshed_chunks' /\ meshed_chunks'[k] = meshed_chunks[k]
             /\ \A k \in DOMAIN meshed_chunks' \ DOMAIN meshed_chunks : k[1] = u /\ k[3] = w
      ]_vars

\* C10 witness: a second create_chunks of a column ended fatally.
C10_Witness ==
    /\ panic = "duplicate"
    /\ Cardinality(DOMAIN chunk_columns) >= 2

\* C11: a column of World's column map, of the mesh cache or of the buffered
\* cache stays there with the value it has, whatever call comes next.
C11_NeverDestroyed ==
    [][/\ \A c \in DOMAIN chunk_stacks :
             c \in DOMAIN chunk_stacks' /\ chunk_stacks'[c] = chunk_stacks[c]
       /\ \A c \in DOMAIN chunk_meshes :
             c \in DOMAIN chunk_meshes' /\ chunk_meshes'[c] = chunk_meshes[c]
       /\ \A c \in DOMAIN buffered_chunks :
             c \in DOMAIN buffered_chunks' /\ buffered_chunks'[c] = buffered_chunks[c]
      ]_vars

\* C11 witness: a column that is no longer visible is still in the three maps
\* after an update at the new camera position spawned a task and create_buffers
\* buffered a column of the new range.
C11_Witness ==
    /\ lastOp = "update" /\ dispatched >= 1
    /\ \E c \in DOMAIN buffered_chunks :
          c \notin Visible(camera) /\ c \in DOMAIN chunk_meshes /\ c \in DOMAIN chunk_stacks
    /\ DOMAIN buffered_chunks \cap Visible(camera) # {}

\* the ring a column lies on around a camera column
RingRadius(uw, cu, cw) == max(Abs(uw[1] - cu), Abs(uw[2] - cw))

\* C12: visible_chunk_range_uw returns the (2d+1)^2 columns within ring radius
\* d of the camera column, each once, the camera's column first and the ring
\* radius never decreasing along the sequence.
C12_RingOrder ==
    call.op = "visible_chunk_range_uw" =>
        LET ret == call.ret
            cu == call.cam[1]
            cw == call.cam[3]
            d == chunk_view_distance
        IN /\ Len(ret) = (2 * d + 1) * (2 * d + 1)
           /\ Range(ret) = {uw \in ((cu - d)..(cu + d)) \X ((cw - d)..(cw + d)) : TRUE}
           /\ \A i, j \in DOMAIN ret : ret[i] = ret[j] => i = j
           /\ ret[1] = <<cu, cw>>
           /\ \A i, j \in DOMAIN ret :
                 i < j => RingRadius(ret[i], cu, cw) <= RingRadius(ret[j], cu, cw)

\* C12 witness: a range of two rings around a camera column away from the origin.
C12_Witness ==
    /\ call.op = "visible_chunk_range_uw"
    /\ chunk_view_distance = 2
    /\ call.cam[1] # 0 /\ call.cam[3] # 0
    /\ Len(call.ret) = 25

\* C13: every (u, v, w) visible_chunk_range_uvw returns has (u, w) in the
\* visible column ring and max(0, cv - d) <= v <= min(VERTICAL_CHUNK_COUNT - 1,
\* cv + d) for the camera's level cv, below the world and above it too; every
\* such triple is returned, and nothing is returned when no level is in range.
C13_LevelsClamped ==
    call.op = "visible_chunk_range_uvw" =>
        LET ret == call.ret
            cv == call.cam[2]
            d == chunk_view_distance
            lo == IF cv - d < 0 THEN 0 ELSE cv - d
            hi == IF cv + d > VERTICAL_CHUNK_COUNT - 1 THEN VERTICAL_CHUNK_COUNT - 1 ELSE cv + d
            ring == Range(visible_chunk_range_uw(<<call.cam[1], call.cam[3]>>, d))
        IN /\ \A i \in DOMAIN ret :
                 /\ <<ret[i][1], ret[i][3]>> \in ring
                 /\ lo <= ret[i][2] /\ ret[i][2] <= hi
                 /\ 0 <= ret[i][2] /\ ret[i][2] < VERTICAL_CHUNK_COUNT
           /\ \A uw \in ring : \A v \in lo..hi : <<uw[1], v, uw[2]>> \in Range(ret)
           /\ lo > hi => ret = <<>>

\* C13 witness: a camera one level below the world with view distance 2 sees
\* the two lowest levels of its 25 columns.
C13_Witness ==
    /\ call.op = "visible_chunk_range_uvw"
    /\ chunk_view_distance = 2
    /\ call.cam[2] = -1
    /\ Len(call.ret) = 50

\* C14: in every state the loader reaches, get_buffer returns "absent" for a
\* column that is not buffered and for a level that is not buffered for the
\* column, below 0 and from VERTICAL_CHUNK_COUNT on too, and it never fails.
\* (get_buffer takes &self: that it changes no state is its signature.)
C14_AbsentNeverFails ==
    \A uw \in QueryCols, v \in QueryLevels :
        LET ret == get_buffer(buffered_chunks, <<uw[1], v, uw[2]>>)
        IN /\ ~ret.panicked
           /\ (uw \notin DOMAIN buffered_chunks
                 \/ v < 0 \/ v >= VERTICAL_CHUNK_COUNT) => ret.value = None

\* C15: create_buffers(camera), called in any reachable state, leaves every
\* visible column that is meshed and not tagged by an in-flight task in the
\* buffered cache; it adds no column that is not visible, not meshed or tagged
\* by an in-flight task; an added column has, per level, a buffer exactly when
\* the mesh list is not empty, and instance counts equal to the list lengths.
C15_BuffersOfMeshes ==
    panic = "none" =>
      \A cam \in Cameras :
        LET visible == Range(visible_chunk_range_uw(cam, chunk_view_distance))
            after == create_buffers(buffered_chunks,
                                    visible_chunk_range_uw(cam, chunk_view_distance),
                                    tasks, chunk_meshes)
            added == DOMAIN after \ DOMAIN buffered_chunks
        IN /\ \A c \in visible :
                 (c \in DOMAIN chunk_meshes /\ c \notin Tagged(tasks)) => c \in DOMAIN after
           /\ \A c \in added :
                 c \in visible /\ c \in DOMAIN chunk_meshes /\ c \notin Tagged(tasks)
           /\ \A c \in added :
                 /\ Len(after[c]) = VERTICAL_CHUNK_COUNT
                 /\ \A v \in 1..VERTICAL_CHUNK_COUNT :
                       /\ (after[c][v].instance_buffer # None)
                             <=> (Len(chunk_meshes[c][v].quads) > 0)
                       /\ (after[c][v].transparent_instance_buffer # None)
                             <=> (Len(chunk_meshes[c][v].transparent_quads) > 0)
                       /\ after[c][v].quad_instance_count = Len(chunk_meshes[c][v].quads)
                       /\ after[c][v].transparent_quad_instance_count
                             = Len(chunk_meshes[c][v].transparent_quads)

\* C15 witness: create_buffers has buffered a column with an empty and a
\* non-empty mesh list while a column visible to the last update was still in
\* flight and another meshed column has no buffers yet.
C15_Witness ==
    /\ panic = "none"
    /\ \E c \in DOMAIN buffered_chunks :
          /\ \E v \in 1..VERTICAL_CHUNK_COUNT : buffered_chunks[c][v].instance_buffer = None
          /\ \E v \in 1..VERTICAL_CHUNK_COUNT : buffered_chunks[c][v].instance_buffer # None
    /\ Tagged(tasks) \cap Visible(camera) # {}
    /\ DOMAIN chunk_meshes \ DOMAIN buffered_chunks # {}

\* C16: the stack and the mesh lists cached for a column are those that
\* generate_stack and generate_mesh give for the seed and the column, whatever
\* the camera did, whichever frame, batch and task the column was in and in
\* whatever order the threads ended: any two runs cache the same for a column.
C16_Deterministic ==
    /\ \A c \in DOMAIN chunk_stacks : chunk_stacks[c] = generate_stack(SEED, c)
    /\ \A c \in DOMAIN chunk_meshes :
          chunk_meshes[c] = [v \in 1..VERTICAL_CHUNK_COUNT |->
                               chunk_meshes_of(generate_mesh(generate_stack(SEED, c).chunks[v]))]

\* C16 witness: with the camera moved, the caches hold a column of the old
\* range only and a column of the new range only, of batches of three columns,
\* while other tasks are still in flight.
C16_Witness ==
    /\ chunk_view_distance = 1 /\ camera = <<1, 0>>
    /\ \E c \in DOMAIN chunk_meshes : c \notin Visible(camera)
    /\ \E c \in DOMAIN chunk_meshes : c \notin Range(visible_chunk_range_uw(<<0, 0>>, 1))
    /\ tasks # <<>>

\* C17: in a generated column, for every two chunks v, v + 1 the halo cell at
\* y = CHUNK_WIDTH of chunk v equals the cell at y = 0 of chunk v + 1, and the
\* halo cell at y = -1 of chunk v + 1 equals the cell at y = CHUNK_WIDTH - 1 of
\* chunk v; it holds after every insertion of the generator, for the cells of
\* the halo ring as for the interior ones.
C17_HaloConsistent ==
    (call.op = "generate_stack" /\ ~call.panicked) =>
        \A v \in 1..(VERTICAL_CHUNK_COUNT - 1) :
            LET lower == call.chunk_stack.chunks[v]
                upper == call.chunk_stack.chunks[v + 1]
            IN /\ at(lower, call.x, CHUNK_WIDTH, call.z).value = at(upper, call.x, 0, call.z).value
               /\ at(upper, call.x, -1, call.z).value
                     = at(lower, call.x, CHUNK_WIDTH - 1, call.z).value

\* C17 witness: a finished cell of the halo ring whose terrain crosses the
\* boundary between chunks 0 and 1 and ends below the top of chunk 2.
C17_Witness ==
    /\ call.op = "generate_stack" /\ call.done
    /\ call.x = -1
    /\ call.height > 2 * CHUNK_WIDTH /\ call.height < 3 * CHUNK_WIDTH
    /\ at(call.chunk_stack.chunks[1], call.x, CHUNK_WIDTH, call.z).value = Some("STONE")
    /\ at(call.chunk_stack.chunks[4], call.x, -1, call.z).value = Some("AIR")

\* C18: for a normalised noise term in [0, 1] the height of a cell, of the halo
\* ring or not, lies in MIN_HEIGHT..(WORLD_HEIGHT - 1); every global y the
\* generator writes, or is still to write, is below WORLD_HEIGHT, and no write
\* fails on a chunk index of VERTICAL_CHUNK_COUNT or more.
C18_HeightInRange ==
    call.op = "generate_stack" =>
        /\ MIN_HEIGHT <= call.height /\ call.height <= WORLD_HEIGHT - 1
        /\ ~call.panicked
        /\ \A k \in DOMAIN call.block_array :
              call.block_array[k].lo < call.block_array[k].hi
                 => call.block_array[k].hi - 1 < WORLD_HEIGHT
        /\ \A i \in DOMAIN call.chunk_stack.height_map :
              /\ MIN_HEIGHT <= call.chunk_stack.height_map[i]
              /\ call.chunk_stack.height_map[i] <= WORLD_HEIGHT - 1

\* C18 witness: the cell of the largest noise term is finished with its top
\* block in the last cell of the highest chunk, and its height is recorded.
C18_Witness ==
    /\ call.op = "generate_stack" /\ call.done
    /\ call.height = WORLD_HEIGHT - 1
    /\ BlockAt(call.chunk_stack, call.x, WORLD_HEIGHT - 1, call.z) = Some("GRASS")
    /\ DOMAIN call.chunk_stack.height_map # {}

\* C19: in a generated cell of height h, halo ring included, the blocks at
\* global y < h are Stone; if h < SEA_LEVEL the block at h is Sand, those
\* between h and SEA_LEVEL are Water and those from SEA_LEVEL on are Air;
\* otherwise the block at h is Grass and those above are Air.
C19_Layers ==
    (call.op = "generate_stack" /\ call.done) =>
        \A y \in 0..(WORLD_HEIGHT - 1) :
            BlockAt(call.chunk_stack, call.x, y, call.z) =
                Some(IF y < call.height THEN "STONE"
                     ELSE IF call.height < SEA_LEVEL
                          THEN IF y = call.height THEN "SAND"
                               ELSE IF y < SEA_LEVEL THEN "WATER" ELSE "AIR"
                          ELSE IF y = call.height THEN "GRASS" ELSE "AIR")

\* C19 witness: a finished cell of the halo ring below sea level, with water
\* on its sand.
C19_Witness ==
    /\ call.op = "generate_stack" /\ call.done
    /\ call.x = CHUNK_WIDTH
    /\ call.height < SEA_LEVEL - 1
    /\ BlockAt(call.chunk_stack, call.x, 0, call.z) = Some("STONE")
    /\ BlockAt(call.chunk_stack, call.x, call.height, call.z) = Some("SAND")
    /\ BlockAt(call.chunk_stack, call.x, SEA_LEVEL - 1, call.z) = Some("WATER")

\* C20: at and at_mut fail, with no cell read or written, when one of x, y, z
\* is outside -1..CHUNK_WIDTH; for coordinates inside they do not fail: at
\* reads a cell of data and at_mut writes the block into one cell of data.
C20_CoordinatesChecked ==
    call.op \in {"at", "at_mut"} =>
        IF \E c \in {call.x, call.y, call.z} : c < -1 \/ c > CHUNK_WIDTH
        THEN /\ call.panicked
             /\ call.index = None
             /\ call.chunk = probe_chunk
        ELSE /\ ~call.panicked
             /\ call.index # None
             /\ 0 <= call.index[1] /\ call.index[1] < TOTAL_BLOCK_COUNT
             /\ call.op = "at" => call.chunk = probe_chunk /\ call.value # None
             /\ call.op = "at_mut" =>
                   /\ data_at(call.chunk, call.index[1]) = "GRASS"
                   /\ \A i \in DOMAIN probe_chunk.cells :
                         i # call.index[1] => data_at(call.chunk, i) = data_at(probe_chunk, i)
                   /\ DOMAIN call.chunk.cells = DOMAIN probe_chunk.cells \cup {call.index[1]}

\* C20 witness: at_mut has written the last cell of data, the far corner of
\* the halo.
C20_Witness ==
    /\ call.op = "at_mut" /\ ~call.panicked
    /\ call.x = CHUNK_WIDTH /\ call.y = CHUNK_WIDTH /\ call.z = CHUNK_WIDTH
    /\ call.index = Some(TOTAL_BLOCK_COUNT - 1)

\* ---- vocabulary of the faces
\* the bits lo .. lo + width - 1 of a
Field(a, lo, width) == (a \div pow(2, lo)) % pow(2, width)

\* the voxel and the direction a face record names
FaceVoxel(face) ==
    <<Field(face.attributes, 0, 5), Field(face.attributes, 5, 5), Field(face.attributes, 10, 5)>>

FaceDirection(face) == Field(face.attributes, 23, 3)

\* the neighbour of a cell in a direction: NegX, X, NegY, Y, NegZ, Z
Neighbour(c, direction) ==
    CASE direction = 0 -> <<c[1] - 1, c[2], c[3]>>
      [] direction = 1 -> <<c[1] + 1, c[2], c[3]>>
      [] direction = 2 -> <<c[1], c[2] - 1, c[3]>>
      [] direction = 3 -> <<c[1], c[2] + 1, c[3]>>
      [] direction = 4 -> <<c[1], c[2], c[3] - 1>>
      [] direction = 5 -> <<c[1], c[2], c[3] + 1>>

\* the block type of a cell of a chunk
TypeAt(chunk, c) == get_block_type(data_at(chunk, index_of(c[1], c[2], c[3])))

\* the face of a voxel in a direction is visible by the rule of the mesher
VisibleFace(chunk, c, direction) ==
    \/ TypeAt(chunk, c) = "SOLID"
         /\ TypeAt(chunk, Neighbour(c, direction)) \in {"TRANSPARENT", "INVISIBLE"}
    \/ TypeAt(chunk, c) = "TRANSPARENT"
         /\ TypeAt(chunk, Neighbour(c, direction)) = "INVISIBLE"

\* the voxels of [0, CHUNK_WIDTH)^3 of a chunk that are not air
Voxels(chunk) == {c \in written_voxels(chunk) : TypeAt(chunk, c) # "INVISIBLE"}

\* the <<voxel, direction>> pairs of a list of face records
Faces(list) == {<<FaceVoxel(list[k]), FaceDirection(list[k])>> : k \in DOMAIN list}

VisibleFaces(chunk, block_type) ==
    {face \in written_voxels(chunk) \X (0..5) :
        TypeAt(chunk, face[1]) = block_type /\ VisibleFace(chunk, face[1], face[2])}

\* the cells of the halo of a chunk that are not air
HaloBlocks(chunk) ==
    {c \in {coords_of(i) : i \in DOMAIN chunk.cells} :
        c \notin written_voxels(chunk) /\ TypeAt(chunk, c) # "INVISIBLE"}

\* C22: generate_mesh returns one QuadInstance, with ao_attributes, for each
\* visible face of a Solid voxel of [0, CHUNK_WIDTH)^3, one
\* TransparentQuadInstance, without ao_attributes, for each visible face of a
\* Transparent voxel of [0, CHUNK_WIDTH)^3, and no other record: none for an
\* Invisible voxel, none for a cell of the halo.
C22_OneRecordPerFace ==
    call.op = "generate_mesh" =>
        /\ \E solid \in {VisibleFaces(call.chunk, "SOLID")} :
              /\ Faces(call.ret[1]) = solid
              /\ Len(call.ret[1]) = Cardinality(solid)
        /\ \E transparent \in {VisibleFaces(call.chunk, "TRANSPARENT")} :
              /\ Faces(call.ret[2]) = transparent
              /\ Len(call.ret[2]) = Cardinality(transparent)
        /\ \A k \in DOMAIN call.ret[1] : DOMAIN call.ret[1][k] = {"attributes", "ao_attributes"}
        /\ \A k \in DOMAIN call.ret[2] : DOMAIN call.ret[2][k] = {"attributes"}

\* C22 witness: a chunk with solid and transparent voxels inside, an air voxel
\* inside and blocks in its halo is meshed into two lists that are not empty.
C22_Witness ==
    /\ call.op = "generate_mesh"
    /\ call.ret[1] # <<>>
    /\ call.ret[2] # <<>>
    /\ HaloBlocks(call.chunk) # {}
    /\ \E c \in written_voxels(call.chunk) : TypeAt(call.chunk, c) = "INVISIBLE"

\* C23: a chunk whose only block that is not air, halo included, is one Solid
\* voxel of [0, CHUNK_WIDTH)^3 is meshed into six QuadInstances, one for each
\* direction, each with ao_attributes 0, and no TransparentQuadInstance.
C23_IsolatedVoxel ==
    (/\ call.op = "generate_mesh"
     /\ Voxels(call.chunk) = {call.voxel}
     /\ HaloBlocks(call.chunk) = {}
     /\ TypeAt(call.chunk, call.voxel) = "SOLID") =>
        /\ Len(call.ret[1]) = 6
        /\ \A direction \in 0..5 :
              \E k \in 1..6 : /\ FaceVoxel(call.ret[1][k]) = call.voxel
                              /\ FaceDirection(call.ret[1][k]) = direction
        /\ \A k \in 1..6 : call.ret[1][k].ao_attributes = 0
        /\ call.ret[2] = <<>>

\* C23 witness: a lone solid voxel on the rim of the interior, next to the
\* halo on two sides, is meshed into six faces.
C23_Witness ==
    /\ call.op = "generate_mesh"
    /\ Voxels(call.chunk) = {call.voxel}
    /\ HaloBlocks(call.chunk) = {}
    /\ TypeAt(call.chunk, call.voxel) = "SOLID"
    /\ call.voxel[1] = 0
    /\ call.voxel[2] = CHUNK_WIDTH \div 2
    /\ call.voxel[3] = CHUNK_WIDTH - 1
    /\ Len(call.ret[1]) = 6

\* the axes (1 = x, 2 = y, 3 = z) of the two cross directions of a direction
CrossAxes(direction) ==
    CASE direction = 0 -> <<2, 3>>
      [] direction = 1 -> <<3, 2>>
      [] direction = 2 -> <<3, 1>>
      [] direction = 3 -> <<1, 3>>
      [] direction = 4 -> <<1, 2>>
      [] direction = 5 -> <<2, 1>>

\* a cell moved by s along an axis
Step(c, axis, s) == [c EXCEPT ![axis] = @ + s]

\* the step signs (s0, s1) of corner i
StepSigns(i) == <<IF i \in {0, 1} THEN -1 ELSE 1, IF i \in {1, 3} THEN 1 ELSE -1>>

\* 1 for a solid cell of a chunk, 0 for another
Solid(chunk, c) == IF TypeAt(chunk, c) = "SOLID" THEN 1 ELSE 0

\* the two side cells and the diagonal cell of corner i of the face of voxel c
\* in a direction
SideCells(c, direction, i) ==
    \* the cell in front of the face
    LET air == Neighbour(c, direction)
    IN <<Step(air, CrossAxes(direction)[1], StepSigns(i)[1]),
         Step(air, CrossAxes(direction)[2], StepSigns(i)[2]),
         Step(Step(air, CrossAxes(direction)[1], StepSigns(i)[1]),
              CrossAxes(direction)[2], StepSigns(i)[2])>>

\* the occlusion value of a corner from its two side cells and its diagonal
\* cell, by the rule
OcclusionOf(chunk, cells) ==
    IF Solid(chunk, cells[1]) = 1 /\ Solid(chunk, cells[2]) = 1
    THEN 3
    ELSE Solid(chunk, cells[1]) + Solid(chunk, cells[2]) + Solid(chunk, cells[3])

\* C24: of every QuadInstance generate_mesh returns, the occlusion value of
\* corner i (0..3, step signs (-1,-1), (-1,+1), (+1,-1), (+1,+1)) is 3 when
\* both side cells are solid, whatever the diagonal cell holds, and the number
\* of solid cells among the two sides and the diagonal otherwise; it is
\* within 0..3.
C24_CornerOcclusion ==
    call.op = "generate_mesh" =>
        \A k \in DOMAIN call.ret[1] :
            \E c \in {FaceVoxel(call.ret[1][k])}, direction \in {FaceDirection(call.ret[1][k])} :
                \A i \in 0..3 :
                    \E cells \in {SideCells(c, direction, i)} :
                        /\ Field(call.ret[1][k].ao_attributes, 2 * i, 2) = OcclusionOf(call.chunk, cells)
                        /\ Field(call.ret[1][k].ao_attributes, 2 * i, 2) \in 0..3

\* C24 witness: a face whose corner 0 has both sides solid and the diagonal
\* not (value 3), whose corner 3 has the diagonal solid alone (value 1) and
\* whose corner 1 has one side and the diagonal solid (value 2).
C24_Witness ==
    /\ call.op = "generate_mesh"
    /\ \E k \in DOMAIN call.ret[1] :
          \E c \in {FaceVoxel(call.ret[1][k])}, direction \in {FaceDirection(call.ret[1][k])} :
             /\ Solid(call.chunk, SideCells(c, direction, 0)[1]) = 1
             /\ Solid(call.chunk, SideCells(c, direction, 0)[2]) = 1
             /\ Solid(call.chunk, SideCells(c, direction, 0)[3]) = 0
             /\ Field(call.ret[1][k].ao_attributes, 0, 2) = 3
             /\ Solid(call.chunk, SideCells(c, direction, 3)[1]) = 0
             /\ Solid(call.chunk, SideCells(c, direction, 3)[2]) = 0
             /\ Solid(call.chunk, SideCells(c, direction, 3)[3]) = 1
             /\ Field(call.ret[1][k].ao_attributes, 6, 2) = 1
             /\ Solid(call.chunk, SideCells(c, direction, 1)[3]) = 1
             /\ Field(call.ret[1][k].ao_attributes, 2, 2) = 2

\* `value` of corner i of the face a QuadInstance is for
ValueOfCorner(chunk, face, i) ==
    corner_value(chunk, go(FaceVoxel(face), FaceDirection(face), 1),
                 cross_directions(FaceDirection(face)), i)

\* C25: ao_attributes of every QuadInstance is below 256, and
\* (ao_attributes >> 2i) & 3 is the value of corner i, for i in 0..3: the four
\* values lie in bits 2i and 2i + 1 and do not overlap.
C25_OcclusionPacked ==
    call.op = "generate_mesh" =>
        \A k \in DOMAIN call.ret[1] :
            /\ call.ret[1][k].ao_attributes < 256
            /\ \A i \in 0..3 :
                  bit_and(shr(call.ret[1][k].ao_attributes, 2 * i), 3)
                     = ValueOfCorner(call.chunk, call.ret[1][k], i)

\* C25 witness: a face whose four corners have the values 1, 2 and 3 among
\* them and none 0.
C25_Witness ==
    /\ call.op = "generate_mesh"
    /\ \E k \in DOMAIN call.ret[1] :
          /\ {ValueOfCorner(call.chunk, call.ret[1][k], i) : i \in 0..3} = {1, 2, 3}
          /\ call.ret[1][k].ao_attributes >= 64

\* C26: the attributes of a face hold x in bits 0-4, y in bits 5-9, z in
\* bits 10-14, the texture index of the block in bits 15-22 and the direction
\* in bits 23-25, for every voxel of [0, CHUNK_WIDTH)^3, block other than air
\* and direction: the value is below 2^26, is the sum of the shifted fields
\* (no two overlap) and decodes to each of them.
C26_AttributesLossless ==
    call.op = "attributes" =>
        /\ call.ret < pow(2, 26)
        /\ call.ret = call.voxel[1] + 32 * call.voxel[2] + 1024 * call.voxel[3]
                      + 32768 * texture_index(call.block).value + 8388608 * call.direction
        /\ Field(call.ret, 0, 5) = call.voxel[1]
        /\ Field(call.ret, 5, 5) = call.voxel[2]
        /\ Field(call.ret, 10, 5) = call.voxel[3]
        /\ Field(call.ret, 15, 8) = texture_index(call.block).value
        /\ Field(call.ret, 23, 3) = call.direction

\* C26 witness: the face Z of a snow voxel at (31, 31, 31), every field of
\* x, y, z at its largest value.
C26_Witness ==
    /\ call.op = "attributes"
    /\ call.voxel = <<CHUNK_WIDTH - 1, CHUNK_WIDTH - 1, CHUNK_WIDTH - 1>>
    /\ call.block = "SNOW"
    /\ call.direction = 5
    /\ Field(call.ret, 15, 8) = 6
    /\ Field(call.ret, 0, 15) = 32767

\* C27: go with direction q and distance k returns coordinates whose
\* component on axis q / 2 is the original plus k for odd q and the original
\* minus k for even q, and whose two other components are the original's; the
\* original is unchanged; a step by k and then a step by k in the opposite
\* direction returns to the start; steps along different axes commute.
C27_Go ==
    /\ call.op = "go" =>
          /\ call.ret[call.direction \div 2 + 1]
               = call.self[call.direction \div 2 + 1]
                 + (IF call.direction % 2 = 1 THEN call.distance ELSE 0 - call.distance)
          /\ \A axis \in (1..3) \ {call.direction \div 2 + 1} : call.ret[axis] = call.self[axis]
          /\ call.self_after = call.self
          /\ call.back = call.self
    /\ (call.op = "go_twice" /\ call.first[1] \div 2 # call.second[1] \div 2) =>
          call.ret = call.swapped

\* C27 witness (a step): a step of 2 in direction NegY from (0, -1, 32) ends
\* at (0, -3, 32).
C27_Witness ==
    /\ call.op = "go"
    /\ call.self = <<0, -1, CHUNK_WIDTH>>
    /\ call.direction = 2
    /\ call.distance = 2
    /\ call.ret = <<0, -3, CHUNK_WIDTH>>

\* C28: every task an update dispatches is tagged with at least 1 and at most
\* chunks_per_task = 2 * view_distance + 1 columns, and every task but the
\* last one of the update with exactly chunks_per_task columns.
C28_FixedSizeBatches ==
    call.op = "dispatch" =>
        \A k \in DOMAIN call.ret :
            /\ 1 <= Len(call.ret[k].uw_list)
            /\ Len(call.ret[k].uw_list) <= 2 * chunk_view_distance + 1
            /\ k < Len(call.ret) => Len(call.ret[k].uw_list) = 2 * chunk_view_distance + 1

\* C28 witness: with view distance 1, seven requests and no task in flight
\* are dispatched as tasks of 3, 3 and 1 columns.
C28_Witness ==
    /\ call.op = "dispatch"
    /\ chunk_view_distance = 1
    /\ Len(call.pending) = 7
    /\ call.in_flight_count = 0
    /\ Len(call.ret) = 3
    /\ Len(call.ret[1].uw_list) = 3
    /\ Len(call.ret[2].uw_list) = 3
    /\ Len(call.ret[3].uw_list) = 1

\* C29: the index ((x+1)*(W+2) + y+1)*(W+2) + z+1 maps the coordinates of
\* [-1, W]^3 one to one onto 0 .. (W+2)^3 - 1: the (W+2)^3 coordinates have
\* (W+2)^3 different indexes, all inside the array, and a write through
\* at_mut(x, y, z) changes what at(x', y', z') reads only when the two
\* coordinates are the same.
C29_AddressBijective ==
    /\ call.op = "indexes" =>
          /\ Cardinality(call.ret) = CHUNK_WIDTH_P * CHUNK_WIDTH_P * CHUNK_WIDTH_P
          /\ \A index \in call.ret : 0 <= index /\ index < air_chunk.len
          /\ air_chunk.len = CHUNK_WIDTH_P * CHUNK_WIDTH_P * CHUNK_WIDTH_P
    /\ call.op = "write_read" =>
          /\ call.write_index # None /\ call.read_index # None
          /\ call.write_index = call.read_index <=> call.written = call.read
          /\ call.ret # call.before => call.written = call.read
          /\ call.written = call.read => call.ret = Some("STONE")

\* C29 witness: a write at (-1, -1, 32) leaves the read at (-1, 0, -1), the
\* cell that follows it in the array, as it was.
C29_Witness ==
    /\ call.op = "write_read"
    /\ call.written = <<-1, -1, CHUNK_WIDTH>>
    /\ call.read = <<-1, 0, -1>>
    /\ call.read_index[1] = call.write_index[1] + 1
    /\ call.ret = Some("AIR")

\* the block at global y of a cell is solid
SolidAt(chunk_stack, x, global_y, z) ==
    BlockAt(chunk_stack, x, global_y, z) # None
       /\ is_solid(BlockAt(chunk_stack, x, global_y, z)[1])

\* C30: once a cell (x, z) of [0, CHUNK_WIDTH)^2 is processed, the entry
\* z * CHUNK_WIDTH + x of the height map, and no other, holds the height of
\* the cell, which is the global y of its topmost Solid voxel; processing a
\* cell of the halo ring writes no entry, and none is written before the
\* blocks of the cell are.
C30_HeightMap ==
    call.op = "generate_stack" =>
        /\ ~call.done => DOMAIN call.chunk_stack.height_map = {}
        /\ (call.done /\ (call.x \in {-1, CHUNK_WIDTH} \/ call.z \in {-1, CHUNK_WIDTH})) =>
              DOMAIN call.chunk_stack.height_map = {}
        /\ (call.done /\ call.x \in 0..(CHUNK_WIDTH - 1) /\ call.z \in 0..(CHUNK_WIDTH - 1)) =>
              /\ DOMAIN call.chunk_stack.height_map = {call.z * CHUNK_WIDTH + call.x}
              /\ call.chunk_stack.height_map[call.z * CHUNK_WIDTH + call.x] = call.height
              /\ SolidAt(call.chunk_stack, call.x, call.height, call.z)
              /\ \A y \in (call.height + 1)..(WORLD_HEIGHT - 1) :
                    ~SolidAt(call.chunk_stack, call.x, y, call.z)

\* C30 witness: the cell (0, 31) is finished below sea level, water over its
\* sand, and entry 31 * 32 of the height map holds the y of the sand.
C30_Witness ==
    /\ call.op = "generate_stack" /\ call.done
    /\ call.x = 0 /\ call.z = CHUNK_WIDTH - 1
    /\ call.height < SEA_LEVEL - 1
    /\ BlockAt(call.chunk_stack, call.x, call.height + 1, call.z) = Some("WATER")
    /\ call.chunk_stack.height_map[(CHUNK_WIDTH - 1) * CHUNK_WIDTH] = call.height

\* C31: for each of the six directions of a face the two cross directions of
\* get_ao_attributes lie on axes other than that of the face and other than
\* one another's.
C31_CrossOrthogonal ==
    call.op = "get_ao_attributes" =>
        /\ call.cross[1] \div 2 # call.direction \div 2
        /\ call.cross[2] \div 2 # call.direction \div 2
        /\ call.cross[1] \div 2 # call.cross[2] \div 2
        /\ call.cross[1] \in 0..5 /\ call.cross[2] \in 0..5

\* C31 witness: for the face Y of a voxel the cross directions are X and Z.
C31_Witness ==
    /\ call.op = "get_ao_attributes"
    /\ call.direction = 3
    /\ call.cross = <<1, 5>>
    /\ call.air_block = <<call.block[1], call.block[2] + 1, call.block[3]>>

\* C32: create_buffers changes nothing but the buffered cache, to which it
\* only adds columns: the mesh cache, the columns of World and the task list
\* are after the call what they were before; a buffered column is in the mesh
\* cache, and no update requests a buffered column.
C32_BuffersOnlyAdded ==
    [][/\ CreateBuffersStep =>
             /\ chunk_meshes' = chunk_meshes
             /\ chunk_stacks' = chunk_stacks
             /\ tasks' = tasks
             /\ \A c \in DOMAIN buffered_chunks :
                   c \in DOMAIN buffered_chunks' /\ buffered_chunks'[c] = buffered_chunks[c]
       /\ DOMAIN buffered_chunks' \subseteq DOMAIN chunk_meshes'
       /\ UpdateStep =>
             /\ Tagged(SubSeq(tasks', Len(tasks') - dispatched' + 1, Len(tasks')))
                   \cap DOMAIN buffered_chunks = {}
             /\ buffered_chunks' = buffered_chunks
      ]_vars

\* C32 witness: a visible column is buffered and still in the mesh cache,
\* no task is tagged with it, and the task the last update spawned is for
\* other columns.
C32_Witness ==
    /\ lastOp = "update" /\ dispatched >= 1 /\ panic = "none"
    /\ \E c \in DOMAIN buffered_chunks \cap Visible(camera) :
          c \in DOMAIN chunk_meshes /\ c \notin Tagged(tasks)

C34_AssignedOnce ==
    /\ panic # "duplicate"
    /\ \A c \in DOMAIN joins : joins[c] = 1
    /\ Tagged(tasks) \cap DOMAIN joins = {}
    /\ Tagged(tasks) \cap DOMAIN chunk_stacks = {}
    /\ Tagged(tasks) \cap DOMAIN chunk_meshes = {}
    /\ \A i, j \in DOMAIN tasks :
         \A k \in DOMAIN tasks[i].uw_list, l \in DOMAIN tasks[j].uw_list :
            tasks[i].uw_list[k] = tasks[j].uw_list[l] => (i = j /\ k = l)

\* C34 witness: the camera has moved; columns of the first range were joined
\* and merged, and a task is in flight for columns that came into view.
C34_Witness ==
    /\ panic = "none"
    /\ camera # <<0, 0>>
    /\ Cardinality(DOMAIN joins) >= 2
    /\ DOMAIN joins \subseteq DOMAIN chunk_stacks
    /\ tasks # <<>>
    /\ Tagged(tasks) \cap Visible(<<0, 0>>) = {}

\* C35: from a loader built on an empty World, in every state World's column
\* map and the mesh cache have the same columns, none of which is tagged by a
\* task in flight; and no request of a task carries a ChunkStack: every
\* dispatched column is generated from the noise.
C35_StacksAndMeshesAgree ==
    /\ DOMAIN chunk_stacks = DOMAIN chunk_meshes
    /\ Tagged(tasks) \cap DOMAIN chunk_stacks = {}
    /\ \A i \in DOMAIN tasks : \A k \in DOMAIN tasks[i].handle.batch :
          /\ tasks[i].handle.batch[k].chunk_stack = None
          /\ tasks[i].handle.batch[k].uw = tasks[i].uw_list[k]
    /\ \A c \in DOMAIN chunk_stacks : chunk_stacks[c] = generate_stack(noise, c)

\* C35 witness: three columns are in World and in the mesh cache, and a task
\* whose requests carry no ChunkStack is in flight for three others.
C35_Witness ==
    /\ Cardinality(DOMAIN chunk_stacks) >= 3
    /\ DOMAIN chunk_stacks = DOMAIN chunk_meshes
    /\ \E i \in DOMAIN tasks :
          /\ Len(tasks[i].handle.batch) = 3
          /\ \A k \in 1..3 : tasks[i].handle.batch[k].chunk_stack = None

\* C36: in every state the columns of the buffered cache are columns of the
\* mesh cache, each with exactly VERTICAL_CHUNK_COUNT levels, so that
\* get_buffer(u, v, w) returns the buffer record of level v for every buffered
\* column (u, w) and every v in 0 .. VERTICAL_CHUNK_COUNT - 1.
C36_BufferedColumnsComplete ==
    /\ DOMAIN buffered_chunks \subseteq DOMAIN chunk_meshes
    /\ \A c \in DOMAIN buffered_chunks :
          /\ Len(buffered_chunks[c]) = VERTICAL_CHUNK_COUNT
          /\ Len(chunk_meshes[c]) = VERTICAL_CHUNK_COUNT
          /\ \A v \in 0..(VERTICAL_CHUNK_COUNT - 1) :
                /\ ~get_buffer(buffered_chunks, <<c[1], v, c[2]>>).panicked
                /\ get_buffer(buffered_chunks, <<c[1], v, c[2]>>).value # None
                /\ get_buffer(buffered_chunks, <<c[1], v, c[2]>>).value[1].chunk_bind_group
                     = <<c[1], v, c[2]>>

\* C36 witness: a column is buffered, get_buffer returns the record of its top
\* level, and another column of the mesh cache is not buffered.
C36_Witness ==
    /\ panic = "none"
    /\ \E c \in DOMAIN buffered_chunks :
          get_buffer(buffered_chunks, <<c[1], VERTICAL_CHUNK_COUNT - 1, c[2]>>).value # None
    /\ DOMAIN chunk_meshes \ DOMAIN buffered_chunks # {}

\* the tag lists of a task list, one after the other
RECURSIVE AllTags(_)
AllTags(task_list) ==
    IF task_list = <<>> THEN <<>>
    ELSE task_list[1].uw_list \o AllTags(Tail(task_list))

\* the visible columns, in ring order, that the last update found neither
\* tagged by a task left in flight by its harvest nor in the mesh cache
PendingOfLastUpdate ==
    LET pending(c) == c \notin Tagged(OlderTasks) /\ c \notin DOMAIN chunk_meshes
    IN SelectSeq(visible_chunk_range_uw(camera, chunk_view_distance), pending)

\* C37: the columns an update dispatches, taken task after task and within a
\* task in the order of its tags, are the first ones of the pending list in
\* ring order: no pending column is dispatched while one that precedes it in
\* the ring sequence is left out.
C37_DispatchIsPrefix ==
    (lastOp = "update" /\ panic = "none") =>
        \E tags \in {AllTags(DispatchedTasks)} :
            /\ Len(tags) <= Len(PendingOfLastUpdate)
            /\ tags = SubSeq(PendingOfLastUpdate, 1, Len(tags))

\* C37 witness: an update found more pending columns than it could dispatch
\* under the limit and dispatched the first ones.
C37_Witness ==
    /\ lastOp = "update" /\ panic = "none"
    /\ dispatched >= 2
    /\ Len(AllTags(DispatchedTasks)) < Len(PendingOfLastUpdate)
    /\ AllTags(DispatchedTasks) = SubSeq(PendingOfLastUpdate, 1, Len(AllTags(DispatchedTasks)))

\* the batching loop that stores a full batch at the start of the next turn
RECURSIVE batch_loop_late_push(_, _, _, _, _)
batch_loop_late_push(batches, last_batch, chunks_iter, in_flight_count, chunks_per_task) ==
    IF ~(Len(batches) + in_flight_count < MAX_CHUNKS_THREAD_LIMIT)
    THEN [batches |-> batches, last_batch |-> last_batch, chunks_iter |-> chunks_iter]
    ELSE IF Len(last_batch) >= chunks_per_task /\ chunks_iter # <<>>
    THEN batch_loop_late_push(Append(batches, last_batch), <<Head(chunks_iter)>>,
                              Tail(chunks_iter), in_flight_count, chunks_per_task)
    ELSE IF chunks_iter = <<>>
    THEN [batches |-> IF Len(last_batch) > 0 THEN Append(batches, last_batch) ELSE batches,
          last_batch |-> <<>>, chunks_iter |-> <<>>]
    ELSE batch_loop_late_push(batches, Append(last_batch, Head(chunks_iter)), Tail(chunks_iter),
                              in_flight_count, chunks_per_task)

\* the batching while loop of update, one turn per request taken from the
\* iterator: the batches, the batch under construction and the requests left
\* in the iterator when the loop is left
RECURSIVE batch_loop(_, _, _, _, _)
batch_loop(batches, last_batch, chunks_iter, in_flight_count, chunks_per_task) ==
    IF ~(Len(batches) + in_flight_count < MAX_CHUNKS_THREAD_LIMIT)
    THEN [batches |-> batches, last_batch |-> last_batch, chunks_iter |-> chunks_iter]
    ELSE IF chunks_iter = <<>>
    THEN [batches |-> IF Len(last_batch) > 0 THEN Append(batches, last_batch) ELSE batches,
          last_batch |-> <<>>, chunks_iter |-> <<>>]
    ELSE IF Len(last_batch) + 1 >= chunks_per_task
    THEN batch_loop(Append(batches, Append(last_batch, Head(chunks_iter))), <<>>,
                    Tail(chunks_iter), in_flight_count, chunks_per_task)
    ELSE batch_loop(batches, Append(last_batch, Head(chunks_iter)), Tail(chunks_iter),
                    in_flight_count, chunks_per_task)

\* the batching loop of the last update, run on the pending list it found
LoopOfLastUpdate ==
    batch_loop(<<>>, <<>>, PendingOfLastUpdate, Len(OlderTasks), 2 * chunk_view_distance + 1)

\* C38: when update returns, every visible column is in the mesh cache or
\* tagged by a task in flight, or the task list holds exactly
\* MAX_CHUNKS_THREAD_LIMIT tasks; and every request the batching loop took from
\* the pending list is in a batch that was spawned: the loop leaves no request
\* behind in the batch under construction.
C38_WorkConserving ==
    (lastOp = "update" /\ panic = "none") =>
        /\ \/ Visible(camera) \subseteq DOMAIN chunk_meshes \cup Tagged(tasks)
           \/ Len(tasks) = MAX_CHUNKS_THREAD_LIMIT
        /\ \E run \in {LoopOfLastUpdate} :
              /\ run.last_batch = <<>>
              /\ run.batches = TagLists(DispatchedTasks)
              /\ Len(PendingOfLastUpdate) - Len(run.chunks_iter) = Len(AllTags(DispatchedTasks))

\* C38 witness: an update stopped at the limit with visible columns still
\* unrequested, having spawned only full batches.
C38_Witness ==
    /\ lastOp = "update" /\ panic = "none"
    /\ Len(tasks) = MAX_CHUNKS_THREAD_LIMIT
    /\ dispatched >= 1
    /\ ~(Visible(camera) \subseteq DOMAIN chunk_meshes \cup Tagged(tasks))
    /\ LoopOfLastUpdate.chunks_iter # <<>>
    /\ LoopOfLastUpdate.last_batch = <<>>

\* the cells of a chunk's data, halo included
InChunk(c) == \A k \in 1..3 : -1 <= c[k] /\ c[k] <= CHUNK_WIDTH

\* C39: the look-ups generate_mesh makes for a voxel never abort: the voxel,
\* its six neighbours and the side and diagonal cells read around the cell in
\* front of each visible face of a solid voxel all lie in [-1, CHUNK_WIDTH]^3,
\* and the texture index is never asked of Block::AIR.
C39_LookupsInRange ==
    call.op \in {"generate_mesh_voxel", "get_ao_attributes"} =>
        /\ ~call.panicked
        /\ call.op = "generate_mesh_voxel" =>
              /\ \A c \in call.reads : InChunk(c)
              /\ "AIR" \notin call.textured
        /\ call.op = "get_ao_attributes" =>
              \A k \in DOMAIN call.reads : InChunk(call.reads[k])

\* C39 witness: a solid voxel in a corner of the interior, with visible faces
\* towards the halo, whose occlusion look-ups reach an edge of the halo.
C39_Witness ==
    /\ call.op = "generate_mesh_voxel"
    /\ call.voxel = <<CHUNK_WIDTH - 1, 0, 0>>
    /\ call.block = "STONE" /\ call.filler = "AIR"
    /\ ~call.panicked
    /\ <<CHUNK_WIDTH, -1, -1>> \in call.reads
    /\ call.textured = {"STONE"}

====
